---- MODULE Spec2Model ----
(***************************************************************************)
(* PlannerX: the Google Calendar reconciliation engine.                    *)
(*                                                                         *)
(* backend/src/routes/google.ts : webhook, watch, sync-now, backfill,      *)
(*                                syncFromGoogle, normalizeAllDayDate      *)
(* backend/src/routes/events.ts : event create / update routes,            *)
(*                                syncToGoogle, mapEventToGoogle           *)
(*                                                                         *)
(* Every HTTP request is a process; every `await` of the source is one     *)
(* step of that process, so that requests interleave exactly at the        *)
(* suspension points of the Node event loop.                               *)
(*                                                                         *)
(* Encoding of JavaScript values                                           *)
(*   string | null | undefined   a string, "" for null / undefined / ""    *)
(*                               (all three are falsy in the source)       *)
(*   ids issued by a counter     naturals >= 1, 0 for null / undefined     *)
(*   Date                        hours since the epoch, day d = 24*d..     *)
(*   a date-only string          the day number                            *)
(***************************************************************************)
EXTENDS Integers, Sequences, FiniteSets, TLC

(***************************************************************************)
(* Bounds of the model                                                     *)
(***************************************************************************)
MaxProcs == 2          \* request slots
MaxRequests == 2       \* requests started in one behaviour
MaxEvents == 3         \* local event ids the store can issue
MaxGoogleIds == 2      \* remote event ids the remote can issue
MaxPages == 2          \* pages of one remote listing
MaxPageItems == 2      \* items on one page
MaxTokens == 2         \* sync tokens the remote can issue
MaxChannels == 2       \* channel ids crypto.randomUUID() can issue
MaxFaults == 1         \* injected failures (remote errors, store errors)
MaxEdits == 2          \* changes made to the remote calendar from outside
MaxExpiration == 2     \* expiration instants the remote can give a channel

(***************************************************************************)
(* Program constants                                                       *)
(***************************************************************************)
DEFAULT_WINDOW_DAYS == 90
SYNC_NOW_WINDOW_DAYS == 30
BACKFILL_WINDOW_DAYS == 365
BATCH_SIZE == 20
NOON_HOUR == 12

Procs == 1..MaxProcs
Users == {"u1", "u2"}
Calendars == {"c1", "c2"}
ResourceIds == {"r1", "r2"}
GoogleEventIds == 1..MaxGoogleIds
TzOffsets == {-8, 0, 13}      \* server time zones, hours east of UTC

VARIABLES
  events,        \* Local Event Store: set of event rows
  nextEventId,   \* next local event id
  accounts,      \* googleAccount rows, one per user
  channels,      \* googleChannel rows
  nextChannelId, \* next id crypto.randomUUID() returns
  remote,        \* the remote calendar service: event id -> event
  nextToken,     \* next sync token the remote issues
  req,           \* the requests in flight: slot -> locals and position
  started,       \* requests started so far
  faults,        \* failures injected so far
  edits,         \* changes made to the remote calendar from outside so far
  maxInFlight,   \* 1: requests run one after the other; 2: they interleave
  tz,            \* time zone of the server process (hours east of UTC)
  script,        \* <<>>: the remote lists its current state;
                 \* otherwise the listing it serves to every pull
  outward,       \* ghost: remote event id -> the local times last mapped outward
  lastDone       \* ghost: the event store when the previous pull completed

vars == <<events, nextEventId, accounts, channels, nextChannelId, remote,
          nextToken, req, started, faults, edits, maxInFlight, tz, script,
          outward, lastDone>>

(***************************************************************************)
(* Values                                                                  *)
(***************************************************************************)
Nil == 0 - 1

NoTime == [date |-> Nil, dateTime |-> Nil]
DateOnly(d) == [date |-> d, dateTime |-> Nil]
DateTime(h) == [date |-> Nil, dateTime |-> h]

\* A string holding either a date ("2024-03-01") or an instant.
NoStr == [isDate |-> FALSE, v |-> Nil]
DateStr(d) == [isDate |-> TRUE, v |-> d]
InstantStr(h) == [isDate |-> FALSE, v |-> h]

\* item.start?.dateTime || item.start?.date
StartOrEndString(t) ==
  IF t.dateTime # Nil THEN InstantStr(t.dateTime)
  ELSE IF t.date # Nil THEN DateStr(t.date)
  ELSE NoStr

\* new Date(str): a date-only string is midnight UTC of that day.
NewDate(s) == IF s.isDate THEN 24 * s.v ELSE s.v

UTCDay(h) == h \div 24

\* normalizeAllDayDate: the UTC calendar day of the value, at 12:00 UTC.
NormalizeAllDayDate(s) == 24 * UTCDay(NewDate(s)) + NOON_HOUR

(***************************************************************************)
(* The remote calendar service                                             *)
(***************************************************************************)
AbsentItem ==
  [cal |-> "", status |-> "absent", start |-> NoTime, end |-> NoTime,
   summary |-> "", description |-> "", location |-> "",
   recurringEventId |-> "", etag |-> ""]

\* What a user can do in the remote calendar's own UI.
AllDayPayload ==
  [start |-> DateOnly(1), end |-> DateOnly(2), summary |-> "",
   description |-> "", location |-> "", recurringEventId |-> "", etag |-> "e1"]
TimedPayload ==
  [start |-> DateTime(33), end |-> DateTime(34), summary |-> "A",
   description |-> "D", location |-> "L", recurringEventId |-> "s1",
   etag |-> "e2"]
NoStartPayload == [TimedPayload EXCEPT !.start = NoTime, !.etag = "e3"]
NoEndPayload == [TimedPayload EXCEPT !.end = NoTime, !.etag = "e4"]
ExternalPayloads == {AllDayPayload, TimedPayload, NoStartPayload, NoEndPayload}

RemoteItem(cal, status, pl) ==
  [cal |-> cal, status |-> status, start |-> pl.start, end |-> pl.end,
   summary |-> pl.summary, description |-> pl.description,
   location |-> pl.location, recurringEventId |-> pl.recurringEventId,
   etag |-> pl.etag]

\* An item as events.list returns it.
ItemOf(g, it) ==
  [id |-> g, status |-> it.status, start |-> it.start, end |-> it.end,
   summary |-> it.summary, description |-> it.description,
   location |-> it.location, recurringEventId |-> it.recurringEventId,
   etag |-> it.etag]

ListItem(g) == ItemOf(g, remote[g])

RECURSIVE AscendingSeq(_)
AscendingSeq(S) ==
  IF S = {} THEN <<>>
  ELSE LET m == CHOOSE x \in S : \A y \in S : x <= y
       IN <<m>> \o AscendingSeq(S \ {m})

ItemsOf(ids) == LET s == AscendingSeq(ids) IN [k \in 1..Len(s) |-> ListItem(s[k])]

\* The pages the remote may serve for a calendar: any of the calendar's events
\* (a sync token or a time window selects some of them), deleted ones included
\* (showDeleted), each event at most once on a page.
RemotePages(cal) ==
  LET ids == {g \in GoogleEventIds :
                remote[g].status # "absent" /\ remote[g].cal = cal}
      some == {S \in SUBSET ids : Cardinality(S) <= MaxPageItems}
  IN {ItemsOf(S) : S \in some}

(***************************************************************************)
(* Requests                                                                *)
(***************************************************************************)
\* No event row (null).
NoEvent ==
  [id |-> 0, userId |-> "", title |-> "", description |-> "", location |-> "",
   startTime |-> Nil, endTime |-> Nil, allDay |-> FALSE, isRecurring |-> FALSE,
   isFocusBlock |-> FALSE, googleEventId |-> 0, googleCalendarId |-> "",
   googleEtag |-> "", categoryId |-> "", color |-> ""]

Idle ==
  [kind |-> "idle", pc |-> "idle", userId |-> "", status |-> 0,
   \* arguments of syncFromGoogle
   calendarId |-> "", channelId |-> 0, syncToken |-> 0, forceFull |-> FALSE,
   daysWindow |-> 0,
   \* locals of syncFromGoogle
   pageToken |-> 0, nextSyncToken |-> 0, pageCount |-> 0, total |-> 0,
   listMode |-> "", windowDays |-> 0,
   cancelledEventIds |-> <<>>, validEvents |-> <<>>,
   existingMap |-> <<>>, i |-> 0, pending |-> {},
   created |-> 0, updated |-> 0, deleted |-> 0, syncResult |-> "",
   \* the remote ids console.error('[Sync] Failed to upsert event ...') logged
   failedIds |-> {},
   \* locals of the event routes and of syncToGoogle / watch
   event |-> NoEvent, googleEventId |-> 0, googleEtag |-> "",
   resourceId |-> "", expiration |-> 0,
   \* data.allDay of PATCH /events/:id: "undefined", "true" or "false"
   allDay |-> "undefined"]

InFlight == {p \in Procs : req[p].kind # "idle"}

\* A new request takes the first free slot.
CanStart(p) ==
  /\ req[p].kind = "idle"
  /\ \A q \in Procs : q < p => req[q].kind # "idle"
  /\ Cardinality(InFlight) < maxInFlight
  /\ started < MaxRequests

(***************************************************************************)
(* Local Event Store (prisma.event)                                        *)
(***************************************************************************)
RowsOfMutant(userId, googleIds) ==
  {e \in events : e.googleEventId \in googleIds}
\* The rows where: { userId, googleEventId: { in: googleIds } } selects.
RowsOf(userId, googleIds) ==
  {e \in events : e.userId = userId /\ e.googleEventId \in googleIds}

\* prisma.event.deleteMany({ where: { userId, googleEventId: { in } } })
DeleteManyMutant(rows, userId, googleIds) ==
  {e \in rows : ~(e.googleEventId \in googleIds)}
DeleteMany(rows, userId, googleIds) ==
  {e \in rows : ~(e.userId = userId /\ e.googleEventId \in googleIds)}

UpdateRowMutant(rows, id, data) == {e \in rows : e.id # id}
UpdateRowClearsMutant(rows, id, data) ==
  {IF e.id = id
     THEN [e EXCEPT !.title = data.title, !.description = data.description,
                    !.location = data.location, !.startTime = data.startTime,
                    !.endTime = data.endTime, !.allDay = data.allDay,
                    !.isRecurring = data.isRecurring,
                    !.googleCalendarId = data.googleCalendarId,
                    !.googleEtag = data.googleEtag,
                    !.isFocusBlock = FALSE, !.categoryId = "", !.color = ""]
     ELSE e : e \in rows}
\* prisma.event.update({ where: { id }, data })
UpdateRow(rows, id, data) ==
  {IF e.id = id
     THEN [e EXCEPT !.title = data.title, !.description = data.description,
                    !.location = data.location, !.startTime = data.startTime,
                    !.endTime = data.endTime, !.allDay = data.allDay,
                    !.isRecurring = data.isRecurring,
                    !.googleCalendarId = data.googleCalendarId,
                    !.googleEtag = data.googleEtag]
     ELSE e : e \in rows}

RowExists(id) == \E e \in events : e.id = id

(***************************************************************************)
(* syncFromGoogle                                                          *)
(***************************************************************************)
SeqToSet(s) == {s[k] : k \in 1..Len(s)}

\* The classification loop over a page's items.
IsCancelled(item) == item.id # 0 /\ item.status = "cancelled"
IsValidMutant(item) ==
  /\ item.id # 0
  /\ item.status # "cancelled"
IsValid(item) ==
  /\ item.id # 0
  /\ item.status # "cancelled"
  /\ StartOrEndString(item.start) # NoStr
  /\ StartOrEndString(item.end) # NoStr

ValidEvent(item) ==
  [id |-> item.id, summary |-> item.summary, description |-> item.description,
   location |-> item.location, start |-> StartOrEndString(item.start),
   end |-> StartOrEndString(item.end), allDay |-> item.start.date # Nil,
   recurringEventId |-> item.recurringEventId, etag |-> item.etag]

CancelledEventIds(items) ==
  LET c == SelectSeq(items, IsCancelled) IN [k \in 1..Len(c) |-> c[k].id]
ValidEvents(items) ==
  LET v == SelectSeq(items, IsValid) IN [k \in 1..Len(v) |-> ValidEvent(v[k])]

EventData(ev, calendarId) ==
  [title |-> IF ev.summary # "" THEN ev.summary ELSE "Untitled event",
   description |-> ev.description,
   location |-> ev.location,
   startTime |-> IF ev.allDay THEN NormalizeAllDayDate(ev.start)
                 ELSE NewDate(ev.start),
   endTime |-> IF ev.allDay THEN NormalizeAllDayDate(ev.end)
               ELSE NewDate(ev.end),
   allDay |-> ev.allDay,
   isRecurring |-> ev.recurringEventId # "",
   googleCalendarId |-> calendarId,
   googleEtag |-> ev.etag]

NewRow(id, userId, googleEventId, data) ==
  [id |-> id, userId |-> userId, title |-> data.title,
   description |-> data.description, location |-> data.location,
   startTime |-> data.startTime, endTime |-> data.endTime,
   allDay |-> data.allDay, isRecurring |-> data.isRecurring,
   isFocusBlock |-> FALSE, googleEventId |-> googleEventId,
   googleCalendarId |-> data.googleCalendarId, googleEtag |-> data.googleEtag,
   \* not in the create's data: the columns' defaults
   categoryId |-> "", color |-> ""]

\* existingMap: remote id -> local id, from the rows findMany returned. With
\* several rows for one remote id the Map keeps the one returned last.
ExistingMaps(userId, googleIds) ==
  LET found == {g \in googleIds : RowsOf(userId, {g}) # {}}
  IN {f \in [found -> {e.id : e \in events}] :
        \A g \in found : \E e \in RowsOf(userId, {g}) : e.id = f[g]}

ExistingIdMutant(r, g) == 0
\* existingMap.get(event.id)
ExistingId(r, g) == IF g \in DOMAIN r.existingMap THEN r.existingMap[g] ELSE 0

\* The response the route sends once syncFromGoogle has returned or thrown.
Returned(r, result) ==
  [r EXCEPT !.pc = "done", !.syncResult = result,
            !.status = IF r.kind = "webhook" THEN r.status ELSE 200]
ThrownMutant(r) == [r EXCEPT !.pc = "done", !.syncResult = "thrown", !.status = 500]
Thrown(r) ==
  [r EXCEPT !.pc = "done", !.syncResult = "thrown",
            !.status = IF r.kind = "webhook" THEN r.status ELSE 500]

AfterLoopMutant(r) ==
  IF r.nextSyncToken # 0 THEN [r EXCEPT !.pc = "persist"]
  ELSE [r EXCEPT !.pc = "done", !.syncResult = "returned"]
AfterLoopStrictMutant(r) ==
  IF r.failedIds # {} THEN [r EXCEPT !.pc = "done", !.syncResult = "thrown"]
  ELSE IF r.nextSyncToken # 0 /\ r.channelId # 0
    THEN [r EXCEPT !.pc = "persist"]
    ELSE [r EXCEPT !.pc = "done", !.syncResult = "returned"]
\* After the do-while loop: the cursor is written when there is one and a
\* channel to write it to.
AfterLoop(r) ==
  IF r.nextSyncToken # 0 /\ r.channelId # 0
    THEN [r EXCEPT !.pc = "persist"]
    ELSE Returned(r, "returned")

AfterPageMutant(r) == AfterLoop(r)
\* } while (pageToken)
AfterPage(r) ==
  IF r.pageToken # 0 THEN [r EXCEPT !.pc = "list"] ELSE AfterLoop(r)

BatchIndices(r, i) ==
  {k \in 1..Len(r.validEvents) : i < k /\ k <= i + BATCH_SIZE}

\* After a batch has settled: the next batch, or the end of the page.
AfterBatch(r) ==
  IF r.i + BATCH_SIZE < Len(r.validEvents)
    THEN [r EXCEPT !.i = r.i + BATCH_SIZE,
                   !.pending = BatchIndices(r, r.i + BATCH_SIZE)]
    ELSE AfterPage(r)

\* const account = await googleAccount.findUnique(); if (!account) return
SyncAccount(p) ==
  /\ req[p].pc = "sync_account"
  /\ req' = [req EXCEPT ![p] =
       IF accounts[req[p].userId].connected
         THEN [req[p] EXCEPT !.pc = "list"]
         ELSE Returned(req[p], "noaccount")]
  /\ UNCHANGED <<events, nextEventId, accounts, channels, nextChannelId,
                 remote, nextToken, started, faults, edits, maxInFlight, tz, script,
                 outward, lastDone>>

ListModeMutant(r) == "timeMin"
\* if (!forceFull && syncToken) listParams.syncToken = syncToken; else timeMin
ListMode(r) == IF ~r.forceFull /\ r.syncToken # 0 THEN "syncToken" ELSE "timeMin"
WindowDays(r) == IF r.daysWindow = 0 THEN DEFAULT_WINDOW_DAYS ELSE r.daysWindow

\* The locals after a page { items, nextPageToken, nextSyncToken } has arrived.
PageFetched(r, items, more, token) ==
  LET r1 == [r EXCEPT
               !.pageCount = r.pageCount + 1,
               !.listMode = ListMode(r),
               !.windowDays = IF ListMode(r) = "timeMin" THEN WindowDays(r) ELSE 0,
               !.total = r.total + Len(items),
               !.pageToken = IF more THEN r.pageCount + 1 ELSE 0,
               !.nextSyncToken = IF token # 0 THEN token ELSE r.nextSyncToken,
               !.cancelledEventIds = CancelledEventIds(items),
               !.validEvents = ValidEvents(items),
                              !.existingMap = <<>>, !.i = 0, !.pending = {}]
  IN [r1 EXCEPT !.pc = IF Len(r1.cancelledEventIds) > 0 THEN "delete" ELSE "find"]

\* const res = await calendar.events.list(listParams), the remote listing its
\* current state. Only the last page of a listing carries nextSyncToken.
ListPage(p) ==
  /\ req[p].pc = "list"
  /\ script = <<>>
  /\ \E items \in RemotePages(req[p].calendarId), more \in BOOLEAN,
        withToken \in BOOLEAN :
       /\ more => req[p].pageCount + 1 < MaxPages
       /\ withToken => ~more /\ nextToken <= MaxTokens
       /\ req' = [req EXCEPT ![p] =
            PageFetched(req[p], items, more, IF withToken THEN nextToken ELSE 0)]
       /\ nextToken' = IF withToken THEN nextToken + 1 ELSE nextToken
  /\ UNCHANGED <<events, nextEventId, accounts, channels, nextChannelId,
                 remote, started, faults, edits, maxInFlight, tz, script, outward,
                 lastDone>>

\* The same call against a remote that does not change and is asked with the
\* same cursor: it serves the same listing again, and issues no new cursor.
ListScriptedPage(p) ==
  /\ req[p].pc = "list"
  /\ script # <<>>
  /\ req' = [req EXCEPT ![p] =
       PageFetched(req[p], script[req[p].pageCount + 1],
                   req[p].pageCount + 1 < Len(script), 0)]
  /\ UNCHANGED <<events, nextEventId, accounts, channels, nextChannelId,
                 remote, nextToken, started, faults, edits, maxInFlight, tz, script,
                 outward, lastDone>>

ListFailsMutant(p) ==
  /\ req[p].pc = "list"
  /\ faults < MaxFaults
  /\ faults' = faults + 1
  /\ req' = [req EXCEPT ![p] = AfterLoop(req[p])]
  /\ UNCHANGED <<events, nextEventId, accounts, channels, nextChannelId,
                 remote, nextToken, started, edits, maxInFlight, tz, script, outward,
                 lastDone>>
\* calendar.events.list rejects (network error, 410 Gone, ...): syncFromGoogle
\* throws.
ListFails(p) ==
  /\ req[p].pc = "list"
  /\ faults < MaxFaults
  /\ faults' = faults + 1
  /\ req' = [req EXCEPT ![p] = Thrown(req[p])]
  /\ UNCHANGED <<events, nextEventId, accounts, channels, nextChannelId,
                 remote, nextToken, started, edits, maxInFlight, tz, script, outward,
                 lastDone>>

\* if (cancelledEventIds.length > 0) await prisma.event.deleteMany(...)
DeleteCancelled(p) ==
  /\ req[p].pc = "delete"
  /\ LET ids == SeqToSet(req[p].cancelledEventIds)
         kept == DeleteMany(events, req[p].userId, ids)
     IN /\ events' = kept
        /\ req' = [req EXCEPT ![p].pc = "find",
                              ![p].deleted = @ + Cardinality(events \ kept)]
  /\ UNCHANGED <<nextEventId, accounts, channels, nextChannelId, remote,
                 nextToken, started, faults, edits, maxInFlight, tz, script, outward,
                 lastDone>>

\* const existingEvents = await prisma.event.findMany(...), then the first
\* batch of upserts is issued.
FindExisting(p) ==
  /\ req[p].pc = "find"
  /\ \E f \in ExistingMaps(req[p].userId,
                           {req[p].validEvents[k].id :
                              k \in 1..Len(req[p].validEvents)}) :
       LET r1 == [req[p] EXCEPT !.existingMap = f, !.i = 0, !.pc = "batch",
                                !.pending = BatchIndices(req[p], 0)]
       IN req' = [req EXCEPT ![p] =
            IF Len(r1.validEvents) = 0 THEN AfterPage(r1) ELSE r1]
  /\ UNCHANGED <<events, nextEventId, accounts, channels, nextChannelId,
                 remote, nextToken, started, faults, edits, maxInFlight, tz, script,
                 outward, lastDone>>

SettledMutant(r, k) ==
  [r EXCEPT !.pending = r.pending \ {k}, !.pc = "out_account"]
\* One promise of the batch has settled; Promise.allSettled resolves when
\* all have.
Settled(r, k) ==
  LET r1 == [r EXCEPT !.pending = r.pending \ {k}]
  IN IF r1.pending = {} THEN AfterBatch(r1) ELSE r1

\* One upsert of the batch completes: prisma.event.update when existingMap has
\* a row for the remote id (it rejects when that row is gone), otherwise
\* prisma.event.create.
UpsertItem(p) ==
  /\ req[p].pc = "batch"
  /\ \E k \in req[p].pending :
       LET ev == req[p].validEvents[k]
           data == EventData(ev, req[p].calendarId)
           existingId == ExistingId(req[p], ev.id)
       IN IF existingId # 0
            THEN IF RowExists(existingId)
                   THEN /\ events' = UpdateRow(events, existingId, data)
                        /\ req' = [req EXCEPT ![p] =
                             Settled([req[p] EXCEPT !.updated = @ + 1], k)]
                        /\ UNCHANGED nextEventId
                   ELSE /\ req' = [req EXCEPT ![p] =
                             Settled([req[p] EXCEPT !.failedIds = @ \cup {ev.id}], k)]
                        /\ UNCHANGED <<events, nextEventId>>
            ELSE /\ nextEventId <= MaxEvents
                 /\ events' = events \cup
                      {NewRow(nextEventId, req[p].userId, ev.id, data)}
                 /\ nextEventId' = nextEventId + 1
                 /\ req' = [req EXCEPT ![p] =
                      Settled([req[p] EXCEPT !.created = @ + 1], k)]
  /\ UNCHANGED <<accounts, channels, nextChannelId, remote, nextToken,
                 started, faults, edits, maxInFlight, tz, script, outward, lastDone>>

UpsertFailsMutant(p) ==
  /\ req[p].pc = "batch"
  /\ faults < MaxFaults
  /\ faults' = faults + 1
  /\ req' = [req EXCEPT ![p] = Thrown(req[p])]
  /\ UNCHANGED <<events, nextEventId, accounts, channels, nextChannelId,
                 remote, nextToken, started, edits, maxInFlight, tz, script, outward,
                 lastDone>>
\* One upsert of the batch rejects (store error): logged, rethrown, and
\* absorbed by Promise.allSettled.
UpsertFails(p) ==
  /\ req[p].pc = "batch"
  /\ faults < MaxFaults
  /\ faults' = faults + 1
  /\ \E k \in req[p].pending :
       req' = [req EXCEPT ![p] =
         Settled([req[p] EXCEPT !.failedIds = @ \cup {req[p].validEvents[k].id}], k)]
  /\ UNCHANGED <<events, nextEventId, accounts, channels, nextChannelId,
                 remote, nextToken, started, edits, maxInFlight, tz, script, outward,
                 lastDone>>

SetSyncToken(rows, channelId, token) ==
  {IF c.channelId = channelId THEN [c EXCEPT !.syncToken = token] ELSE c :
     c \in rows}

\* await googleChannel.update({ where: { channelId }, data: { syncToken } })
\* It rejects when no row has that channelId.
PersistCursor(p) ==
  /\ req[p].pc = "persist"
  /\ IF \E c \in channels : c.channelId = req[p].channelId
       THEN /\ channels' = SetSyncToken(channels, req[p].channelId,
                                        req[p].nextSyncToken)
            /\ req' = [req EXCEPT ![p] = Returned(req[p], "returned")]
       ELSE /\ req' = [req EXCEPT ![p] = Thrown(req[p])]
            /\ UNCHANGED channels
  /\ UNCHANGED <<events, nextEventId, accounts, nextChannelId, remote,
                 nextToken, started, faults, edits, maxInFlight, tz, script, outward,
                 lastDone>>

\* The arguments of a syncFromGoogle call, locals at their initial values.
SyncCall(r, userId, calendarId, channelId, syncToken, forceFull, daysWindow) ==
  [r EXCEPT !.pc = "sync_account", !.userId = userId,
            !.calendarId = calendarId, !.channelId = channelId,
            !.syncToken = syncToken, !.forceFull = forceFull,
            !.daysWindow = daysWindow]


(***************************************************************************)
(* Routes that pull: POST /webhook, POST /sync-now, POST /backfill         *)
(***************************************************************************)
Begin(p, r) ==
  /\ CanStart(p)
  /\ started' = started + 1
  /\ req' = [req EXCEPT ![p] = r]

ChannelByIdMutant(channelId) == channels
ChannelById(channelId) == {c \in channels : c.channelId = channelId}

\* res.status(200).end(), then the headers are read.
StartWebhook(p) ==
  /\ \E channelId \in 0..MaxChannels, resourceId \in {"", "r1"} :
       Begin(p, [Idle EXCEPT !.kind = "webhook", !.status = 200,
                             !.channelId = channelId,
                             !.resourceId = resourceId,
                             !.pc = IF channelId = 0 \/ resourceId = ""
                                      THEN "done" ELSE "wh_channel"])
  /\ UNCHANGED <<events, nextEventId, accounts, channels, nextChannelId,
                 remote, nextToken, faults, edits, maxInFlight, tz, script, outward,
                 lastDone>>

\* const channel = await googleChannel.findUnique({ where: { channelId } })
WebhookChannel(p) ==
  /\ req[p].pc = "wh_channel"
  /\ req' = [req EXCEPT ![p] =
       IF ChannelById(req[p].channelId) = {}
         THEN [req[p] EXCEPT !.pc = "done"]
         ELSE LET channel == CHOOSE c \in ChannelById(req[p].channelId) : TRUE
              IN SyncCall(req[p], channel.userId, channel.calendarId,
                          channel.channelId, channel.syncToken, FALSE, 0)]
  /\ UNCHANGED <<events, nextEventId, accounts, channels, nextChannelId,
                 remote, nextToken, started, faults, edits, maxInFlight, tz, script,
                 outward, lastDone>>

\* The lookup rejects (store error): caught and logged by the handler.
WebhookChannelFails(p) ==
  /\ req[p].pc = "wh_channel"
  /\ faults < MaxFaults
  /\ faults' = faults + 1
  /\ req' = [req EXCEPT ![p].pc = "done"]
  /\ UNCHANGED <<events, nextEventId, accounts, channels, nextChannelId,
                 remote, nextToken, started, edits, maxInFlight, tz, script,
                 outward, lastDone>>

StartSyncNow(p, userId) ==
  /\ Begin(p, [Idle EXCEPT !.kind = "syncNow", !.userId = userId,
                           !.pc = "sn_account"])
  /\ UNCHANGED <<events, nextEventId, accounts, channels, nextChannelId,
                 remote, nextToken, faults, edits, maxInFlight, tz, script, outward,
                 lastDone>>

\* const account = await googleAccount.findUnique(...)
SyncNowAccount(p) ==
  /\ req[p].pc = "sn_account"
  /\ LET account == accounts[req[p].userId]
     IN req' = [req EXCEPT ![p] =
          IF ~account.connected \/ account.selectedCalendarId = ""
            THEN [req[p] EXCEPT !.pc = "done", !.status = 400]
            ELSE [req[p] EXCEPT !.pc = "sn_channel",
                                !.calendarId = account.selectedCalendarId]]
  /\ UNCHANGED <<events, nextEventId, accounts, channels, nextChannelId,
                 remote, nextToken, started, faults, edits, maxInFlight, tz, script,
                 outward, lastDone>>

NoChannel ==
  [channelId |-> 0, resourceId |-> "", userId |-> "", calendarId |-> "",
   expiration |-> 0, syncToken |-> 0]

\* const channel = await googleChannel.findFirst({ where: { userId, calendarId } })
SyncNowChannel(p) ==
  /\ req[p].pc = "sn_channel"
  /\ LET found == {c \in channels : c.userId = req[p].userId
                                    /\ c.calendarId = req[p].calendarId}
     IN \E channel \in IF found = {} THEN {NoChannel} ELSE found :
          req' = [req EXCEPT ![p] =
            SyncCall(req[p], req[p].userId, req[p].calendarId,
                     channel.channelId, channel.syncToken,
                     channel.syncToken = 0,
                     IF channel.syncToken # 0 THEN 0 ELSE SYNC_NOW_WINDOW_DAYS)]
  /\ UNCHANGED <<events, nextEventId, accounts, channels, nextChannelId,
                 remote, nextToken, started, faults, edits, maxInFlight, tz, script,
                 outward, lastDone>>

StartBackfill(p, userId) ==
  /\ Begin(p, [Idle EXCEPT !.kind = "backfill", !.userId = userId,
                           !.pc = "bf_account"])
  /\ UNCHANGED <<events, nextEventId, accounts, channels, nextChannelId,
                 remote, nextToken, faults, edits, maxInFlight, tz, script, outward,
                 lastDone>>

\* const account = await googleAccount.findUnique(...), then syncFromGoogle
\* with no channel, no cursor, forceFull and a one-year window.
BackfillAccount(p) ==
  /\ req[p].pc = "bf_account"
  /\ LET account == accounts[req[p].userId]
     IN req' = [req EXCEPT ![p] =
          IF ~account.connected \/ account.selectedCalendarId = ""
            THEN [req[p] EXCEPT !.pc = "done", !.status = 400]
            ELSE SyncCall(req[p], req[p].userId, account.selectedCalendarId,
                          0, 0, TRUE, BACKFILL_WINDOW_DAYS)]
  /\ UNCHANGED <<events, nextEventId, accounts, channels, nextChannelId,
                 remote, nextToken, started, faults, edits, maxInFlight, tz, script,
                 outward, lastDone>>

IsPull(r) == r.kind \in {"webhook", "syncNow", "backfill"}

NoSnapshot ==
  [valid |-> FALSE, userId |-> "", calendarId |-> "", listMode |-> "",
   windowDays |-> 0, rows |-> {}]

\* The request is over; its slot is free again.
Finish(p) ==
  /\ req[p].pc = "done"
  /\ req' = [req EXCEPT ![p] = Idle]
  /\ lastDone' = IF script # <<>> /\ IsPull(req[p])
                      /\ req[p].syncResult = "returned"
                   THEN [valid |-> TRUE, userId |-> req[p].userId,
                         calendarId |-> req[p].calendarId,
                         listMode |-> req[p].listMode,
                         windowDays |-> req[p].windowDays, rows |-> events]
                   ELSE lastDone
  /\ UNCHANGED <<events, nextEventId, accounts, channels, nextChannelId,
                 remote, nextToken, started, faults, edits, maxInFlight, tz, script,
                 outward>>

(***************************************************************************)
(* The remote calendar changing on its own (edits in the provider's UI)    *)
(***************************************************************************)
NoOrigin == [set |-> FALSE, allDay |-> FALSE, startTime |-> 0, endTime |-> 0]

\* The server observes the remote calendar only through its remote calls, so
\* a change made at any other moment is the same as one made just before the
\* next call.
\* The calendars the server ever lists: changes elsewhere are never observed.
ListedCalendars ==
  ({accounts[u].selectedCalendarId : u \in Users} \cup
     {c.calendarId : c \in channels}) \ {""}

RemoteCallPending ==
  \E p \in Procs : req[p].pc \in {"list", "out_remote", "del_remote"}

ExternalEdit(g) ==
  /\ script = <<>>
  /\ RemoteCallPending
  /\ edits < MaxEdits
  /\ edits' = edits + 1
  /\ \E cal \in ListedCalendars, pl \in ExternalPayloads :
       /\ remote[g].status # "absent" => cal = remote[g].cal
       /\ remote' = [remote EXCEPT ![g] = RemoteItem(cal, "confirmed", pl)]
  /\ outward' = [outward EXCEPT ![g] = NoOrigin]
  /\ UNCHANGED <<events, nextEventId, accounts, channels, nextChannelId,
                 nextToken, req, started, faults, maxInFlight, tz, script,
                 lastDone>>

ExternalCancel(g) ==
  /\ script = <<>>
  /\ RemoteCallPending
  /\ edits < MaxEdits
  /\ edits' = edits + 1
  /\ remote[g].status = "confirmed"
  /\ remote' = [remote EXCEPT ![g] =
       [AbsentItem EXCEPT !.cal = remote[g].cal, !.status = "cancelled"]]
  /\ outward' = [outward EXCEPT ![g] = NoOrigin]
  /\ UNCHANGED <<events, nextEventId, accounts, channels, nextChannelId,
                 nextToken, req, started, faults, maxInFlight, tz, script,
                 lastDone>>

(***************************************************************************)
(* backend/src/routes/events.ts: POST /events, PATCH /events/:id and the   *)
(* outbound propagation syncToGoogle                                       *)
(***************************************************************************)
\* toLocalDateOnly: the date, in the server's time zone, of an instant.
ToLocalDateOnly(h) == (h + tz) \div 24

\* addDaysDateOnly
AddDaysDateOnly(d, days) == d + days

\* mapEventToGoogle: the request body of a remote insert or patch.
MapEventToGoogle(event) ==
  [summary |-> event.title,
   description |-> event.description,
   location |-> event.location,
   start |-> IF event.allDay THEN DateOnly(ToLocalDateOnly(event.startTime))
             ELSE DateTime(event.startTime),
   end |-> IF event.allDay
             THEN DateOnly(AddDaysDateOnly(ToLocalDateOnly(event.endTime), 1))
             ELSE DateTime(event.endTime)]

\* The request bodies the model sends: an all-day event given by two instants
\* of one day, and a timed event.
CreateInputs ==
  {[title |-> "T", startTime |-> InstantStr(47), endTime |-> InstantStr(24),
    allDay |-> TRUE],
   [title |-> "T", startTime |-> InstantStr(33), endTime |-> InstantStr(34),
    allDay |-> FALSE]}

\* POST /events: the body is parsed and prisma.event.create commits the row.
StartCreateEvent(p, userId) ==
  /\ nextEventId <= MaxEvents
  /\ \E data \in CreateInputs :
       LET event ==
             [NoEvent EXCEPT
                !.id = nextEventId, !.userId = userId, !.title = data.title,
                !.startTime = IF data.allDay
                                THEN NormalizeAllDayDate(data.startTime)
                                ELSE NewDate(data.startTime),
                !.endTime = IF data.allDay
                              THEN NormalizeAllDayDate(data.endTime)
                              ELSE NewDate(data.endTime),
                !.allDay = data.allDay]
       IN /\ Begin(p, [Idle EXCEPT !.kind = "create", !.userId = userId,
                                   !.event = event, !.pc = "out_account"])
          /\ events' = events \cup {event}
          /\ nextEventId' = nextEventId + 1
  /\ UNCHANGED <<accounts, channels, nextChannelId, remote, nextToken, faults,
                 edits, maxInFlight, tz, script, outward, lastDone>>

\* The partial bodies PATCH /events/:id is sent in the model.
UpdateInputs ==
  {[title |-> "T2", startTime |-> NoStr, endTime |-> NoStr,
    allDay |-> "undefined"],
   [title |-> "", startTime |-> InstantStr(57), endTime |-> InstantStr(58),
    allDay |-> "undefined"]}

\* PATCH /events/:id with a body from inputs (a field that is "" / NoStr /
\* "undefined" is absent from the body): const existing = await
\* prisma.event.findFirst({ where: { id, userId } }); 404 when there is none;
\* allDay = data.allDay ?? existing.allDay ?? false decides how the times
\* that are present are parsed.
PatchEvent(p, userId, inputs) ==
  /\ \E id \in 1..MaxEvents, data \in inputs :
       LET found == {e \in events : e.id = id /\ e.userId = userId}
       IN Begin(p,
            IF found = {}
              THEN [Idle EXCEPT !.kind = "update", !.userId = userId,
                                !.pc = "done", !.status = 404]
              ELSE LET existing == CHOOSE e \in found : TRUE
                       allDay == IF data.allDay = "undefined"
                                   THEN existing.allDay
                                   ELSE data.allDay = "true"
                   IN [Idle EXCEPT
                         !.kind = "update", !.userId = userId,
                         !.pc = "ev_update",
                         !.allDay = data.allDay,
                         \* the data of the update about to be issued
                         !.event =
                           [existing EXCEPT
                              !.title = IF data.title # "" THEN data.title ELSE @,
                              !.startTime =
                                IF data.startTime # NoStr
                                  THEN IF allDay
                                         THEN NormalizeAllDayDate(data.startTime)
                                         ELSE NewDate(data.startTime)
                                  ELSE Nil,
                              !.endTime =
                                IF data.endTime # NoStr
                                  THEN IF allDay
                                         THEN NormalizeAllDayDate(data.endTime)
                                         ELSE NewDate(data.endTime)
                                  ELSE Nil]])
  /\ UNCHANGED <<events, nextEventId, accounts, channels, nextChannelId,
                 remote, nextToken, faults, edits, maxInFlight, tz, script,
                 outward, lastDone>>

StartUpdateEvent(p, userId) == PatchEvent(p, userId, UpdateInputs)

\* const event = await prisma.event.update({ where: { id }, data }): fields
\* left undefined keep their value; it rejects when the row is gone, and the
\* route answers 500.
UpdateEventRow(p) ==
  /\ req[p].pc = "ev_update"
  /\ LET data == req[p].event
         found == {e \in events : e.id = data.id}
     IN IF found = {}
          THEN /\ req' = [req EXCEPT ![p].pc = "done", ![p].status = 500,
                                     ![p].event = NoEvent]
               /\ UNCHANGED events
          ELSE LET old == CHOOSE e \in found : TRUE
                   new == [old EXCEPT
                             !.title = data.title,
                             !.allDay = IF req[p].allDay = "undefined" THEN @
                                        ELSE req[p].allDay = "true",
                             !.startTime = IF data.startTime # Nil
                                             THEN data.startTime ELSE @,
                             !.endTime = IF data.endTime # Nil
                                           THEN data.endTime ELSE @]
               IN /\ events' = (events \ {old}) \cup {new}
                  /\ req' = [req EXCEPT ![p].pc = "out_account",
                                        ![p].event = new]
  /\ UNCHANGED <<nextEventId, accounts, channels, nextChannelId, remote,
                 nextToken, started, faults, edits, maxInFlight, tz, script,
                 outward, lastDone>>

\* res.status(201).json(event) / res.json(event)
Responded(r) ==
  [r EXCEPT !.pc = "done", !.status = IF r.kind = "create" THEN 201 ELSE 200]

\* The route's catch block: res.status(500)
RouteFailed(r) == [r EXCEPT !.pc = "done", !.status = 500]

OutAccountByEventMutant(p) ==
  /\ req[p].pc = "out_account"
  /\ LET account == accounts[req[p].userId]
     IN req' = [req EXCEPT ![p] =
          IF ~account.connected \/ account.selectedCalendarId = ""
            THEN Responded(req[p])
            ELSE [req[p] EXCEPT !.pc = "out_remote",
                                !.calendarId =
                                  IF req[p].event.googleCalendarId # ""
                                    THEN req[p].event.googleCalendarId
                                    ELSE account.selectedCalendarId,
                                !.googleEventId = req[p].event.googleEventId,
                                !.googleEtag = req[p].event.googleEtag]]
  /\ UNCHANGED <<events, nextEventId, accounts, channels, nextChannelId,
                 remote, nextToken, started, faults, edits, maxInFlight, tz,
                 script, outward, lastDone>>
OutAccountMutant(p) ==
  /\ req[p].pc = "out_account"
  /\ LET account == accounts[req[p].userId]
     IN req' = [req EXCEPT ![p] =
          IF ~account.connected \/ account.selectedCalendarId = ""
            THEN Responded(req[p])
            ELSE [req[p] EXCEPT !.pc = "out_remote",
                                !.calendarId = account.selectedCalendarId,
                                !.googleEventId = 0,
                                !.googleEtag = req[p].event.googleEtag]]
  /\ UNCHANGED <<events, nextEventId, accounts, channels, nextChannelId,
                 remote, nextToken, started, faults, edits, maxInFlight, tz,
                 script, outward, lastDone>>
\* syncToGoogle -> getCalendarClientForUser: const account = await
\* prisma.googleAccount.findUnique(...); if (!account ||
\* !account.selectedCalendarId) return null
OutAccount(p) ==
  /\ req[p].pc = "out_account"
  /\ LET account == accounts[req[p].userId]
     IN req' = [req EXCEPT ![p] =
          IF ~account.connected \/ account.selectedCalendarId = ""
            THEN Responded(req[p])
            ELSE [req[p] EXCEPT !.pc = "out_remote",
                                !.calendarId = account.selectedCalendarId,
                                !.googleEventId = req[p].event.googleEventId,
                                !.googleEtag = req[p].event.googleEtag]]
  /\ UNCHANGED <<events, nextEventId, accounts, channels, nextChannelId,
                 remote, nextToken, started, faults, edits, maxInFlight, tz,
                 script, outward, lastDone>>

\* The same lookup rejects (store error). It is made outside syncToGoogle's
\* try block, so the rejection reaches the route's catch block.
OutAccountFails(p) ==
  /\ req[p].pc = "out_account"
  /\ faults < MaxFaults
  /\ faults' = faults + 1
  /\ req' = [req EXCEPT ![p] = RouteFailed(req[p])]
  /\ UNCHANGED <<events, nextEventId, accounts, channels, nextChannelId,
                 remote, nextToken, started, edits, maxInFlight, tz, script,
                 outward, lastDone>>

Origin(event) ==
  [set |-> TRUE, allDay |-> event.allDay, startTime |-> event.startTime,
   endTime |-> event.endTime]

FreeGoogleIds == {g \in GoogleEventIds : remote[g].status = "absent"}

\* The remote applies a patch: the fields the body gives replace the event's.
Patched(item, body) ==
  [item EXCEPT !.summary = body.summary,
               !.description = IF body.description # "" THEN body.description ELSE @,
               !.location = IF body.location # "" THEN body.location ELSE @,
               !.start = body.start, !.end = body.end, !.etag = "e0"]

\* calendar.events.patch when the event carries a remote id (the remote
\* answers 404 when the calendar has no such event: caught, logged), otherwise
\* calendar.events.insert, the remote issuing a new id.
OutRemote(p) ==
  /\ req[p].pc = "out_remote"
  /\ LET body == MapEventToGoogle(req[p].event)
         g == req[p].googleEventId
     IN IF g # 0
          THEN IF remote[g].status = "confirmed" /\ remote[g].cal = req[p].calendarId
                 THEN /\ remote' = [remote EXCEPT ![g] = Patched(@, body)]
                      /\ outward' = [outward EXCEPT ![g] = Origin(req[p].event)]
                      /\ req' = [req EXCEPT ![p].pc = "out_writeback",
                                            ![p].googleEtag = "e0"]
                 ELSE /\ req' = [req EXCEPT ![p] = Responded(req[p])]
                      /\ UNCHANGED <<remote, outward>>
          ELSE \E new \in FreeGoogleIds :
                 /\ remote' = [remote EXCEPT ![new] =
                      Patched([AbsentItem EXCEPT !.cal = req[p].calendarId,
                                                 !.status = "confirmed"], body)]
                 /\ outward' = [outward EXCEPT ![new] = Origin(req[p].event)]
                 /\ req' = [req EXCEPT ![p].pc = "out_writeback",
                                       ![p].googleEventId = new,
                                       ![p].googleEtag = "e0"]
  /\ UNCHANGED <<events, nextEventId, accounts, channels, nextChannelId,
                 nextToken, started, faults, edits, maxInFlight, tz, script,
                 lastDone>>

\* The remote call rejects (network error): caught and logged by syncToGoogle.
OutRemoteFails(p) ==
  /\ req[p].pc = "out_remote"
  /\ faults < MaxFaults
  /\ faults' = faults + 1
  /\ req' = [req EXCEPT ![p] = Responded(req[p])]
  /\ UNCHANGED <<events, nextEventId, accounts, channels, nextChannelId,
                 remote, nextToken, started, edits, maxInFlight, tz, script,
                 outward, lastDone>>

\* await prisma.event.update({ where: { id: event.id }, data: { googleEventId,
\* googleCalendarId, googleEtag } }); a rejection (the row is gone) is caught.
OutWriteBack(p) ==
  /\ req[p].pc = "out_writeback"
  /\ events' = {IF e.id = req[p].event.id
                  THEN [e EXCEPT !.googleEventId = req[p].googleEventId,
                                 !.googleCalendarId = req[p].calendarId,
                                 !.googleEtag = req[p].googleEtag]
                  ELSE e : e \in events}
  /\ req' = [req EXCEPT ![p] = Responded(req[p])]
  /\ UNCHANGED <<nextEventId, accounts, channels, nextChannelId, remote,
                 nextToken, started, faults, edits, maxInFlight, tz, script,
                 outward, lastDone>>

\* The write-back rejects (store error): caught and logged by syncToGoogle.
OutWriteBackFails(p) ==
  /\ req[p].pc = "out_writeback"
  /\ faults < MaxFaults
  /\ faults' = faults + 1
  /\ req' = [req EXCEPT ![p] = Responded(req[p])]
  /\ UNCHANGED <<events, nextEventId, accounts, channels, nextChannelId,
                 remote, nextToken, started, edits, maxInFlight, tz, script,
                 outward, lastDone>>

(***************************************************************************)
(* backend/src/routes/events.ts: DELETE /events/:id and deleteFromGoogle   *)
(***************************************************************************)
\* const existing = await prisma.event.findFirst({ where: { id, userId } })
StartDeleteEvent(p, userId) ==
  /\ \E id \in 1..MaxEvents :
       LET found == {e \in events : e.id = id /\ e.userId = userId}
       IN Begin(p, [Idle EXCEPT
                      !.kind = "delete", !.userId = userId, !.i = id,
                      !.pc = "del_rows",
                      !.event = IF found = {} THEN NoEvent
                                ELSE CHOOSE e \in found : TRUE])
  /\ UNCHANGED <<events, nextEventId, accounts, channels, nextChannelId,
                 remote, nextToken, faults, edits, maxInFlight, tz, script,
                 outward, lastDone>>

\* res.status(404) when result.count === 0, else res.json({ success: true })
DeleteResponded(r) ==
  [r EXCEPT !.pc = "done", !.status = IF r.deleted = 0 THEN 404 ELSE 200]

\* const result = await prisma.event.deleteMany({ where: { id, userId } });
\* deleteFromGoogle is called when the row had been found.
DeleteEventRow(p) ==
  /\ req[p].pc = "del_rows"
  /\ LET gone == {e \in events : e.id = req[p].i /\ e.userId = req[p].userId}
         r1 == [req[p] EXCEPT !.deleted = Cardinality(gone)]
     IN /\ events' = events \ gone
        /\ req' = [req EXCEPT ![p] =
             IF req[p].event # NoEvent THEN [r1 EXCEPT !.pc = "del_account"]
             ELSE DeleteResponded(r1)]
  /\ UNCHANGED <<nextEventId, accounts, channels, nextChannelId, remote,
                 nextToken, started, faults, edits, maxInFlight, tz, script,
                 outward, lastDone>>

\* deleteFromGoogle: const client = await getCalendarClientForUser(userId);
\* if (!client) return; if (!event.googleEventId) return
DelAccount(p) ==
  /\ req[p].pc = "del_account"
  /\ LET account == accounts[req[p].userId]
     IN req' = [req EXCEPT ![p] =
          IF \/ ~account.connected \/ account.selectedCalendarId = ""
             \/ req[p].event.googleEventId = 0
            THEN DeleteResponded(req[p])
            ELSE [req[p] EXCEPT !.pc = "del_remote",
                                !.calendarId = account.selectedCalendarId]]
  /\ UNCHANGED <<events, nextEventId, accounts, channels, nextChannelId,
                 remote, nextToken, started, faults, edits, maxInFlight, tz,
                 script, outward, lastDone>>

\* The lookup rejects (store error), outside deleteFromGoogle's try block:
\* the route answers 500.
DelAccountFails(p) ==
  /\ req[p].pc = "del_account"
  /\ faults < MaxFaults
  /\ faults' = faults + 1
  /\ req' = [req EXCEPT ![p] = RouteFailed(req[p])]
  /\ UNCHANGED <<events, nextEventId, accounts, channels, nextChannelId,
                 remote, nextToken, started, edits, maxInFlight, tz, script,
                 outward, lastDone>>

\* await calendar.events.delete({ calendarId, eventId }): the remote marks
\* the event cancelled, or answers 404 / 410 when the calendar has no such
\* live event: caught and logged.
DelRemote(p) ==
  /\ req[p].pc = "del_remote"
  /\ LET g == req[p].event.googleEventId
     IN IF remote[g].status = "confirmed" /\ remote[g].cal = req[p].calendarId
          THEN /\ remote' = [remote EXCEPT ![g] =
                    [AbsentItem EXCEPT !.cal = remote[g].cal,
                                       !.status = "cancelled"]]
               /\ outward' = [outward EXCEPT ![g] = NoOrigin]
          ELSE UNCHANGED <<remote, outward>>
  /\ req' = [req EXCEPT ![p] = DeleteResponded(req[p])]
  /\ UNCHANGED <<events, nextEventId, accounts, channels, nextChannelId,
                 nextToken, started, faults, edits, maxInFlight, tz, script,
                 lastDone>>

DelRemoteFailsMutant(p) ==
  /\ req[p].pc = "del_remote"
  /\ faults < MaxFaults
  /\ faults' = faults + 1
  /\ req' = [req EXCEPT ![p] = RouteFailed(req[p])]
  /\ UNCHANGED <<events, nextEventId, accounts, channels, nextChannelId,
                 remote, nextToken, started, edits, maxInFlight, tz, script,
                 outward, lastDone>>
\* The remote call rejects (network error): caught and logged.
DelRemoteFails(p) ==
  /\ req[p].pc = "del_remote"
  /\ faults < MaxFaults
  /\ faults' = faults + 1
  /\ req' = [req EXCEPT ![p] = DeleteResponded(req[p])]
  /\ UNCHANGED <<events, nextEventId, accounts, channels, nextChannelId,
                 remote, nextToken, started, edits, maxInFlight, tz, script,
                 outward, lastDone>>

(***************************************************************************)
(* Initial states                                                          *)
(***************************************************************************)
Account(calendarId) == [connected |-> TRUE, selectedCalendarId |-> calendarId]
NoAccount == [connected |-> FALSE, selectedCalendarId |-> ""]

Channel(channelId, resourceId, userId, calendarId, expiration, syncToken) ==
  [channelId |-> channelId, resourceId |-> resourceId, userId |-> userId,
   calendarId |-> calendarId, expiration |-> expiration,
   syncToken |-> syncToken]

\* Both users have connected and selected the same (shared) calendar, the first
\* one watches it; nothing is synced yet.
InitConnected ==
  /\ events = {}
  /\ nextEventId = 1
  /\ accounts = [u \in Users |-> Account("c1")]
  /\ channels = {Channel(1, "r1", "u1", "c1", 1, 0)}
  /\ nextChannelId = 2
  /\ remote = [g \in GoogleEventIds |-> AbsentItem]
  /\ nextToken = 1
  /\ req = [p \in Procs |-> Idle]
  /\ started = 0
  /\ faults = 0
  /\ edits = 0
  /\ tz = 0
  /\ script = <<>>
  /\ outward = [g \in GoogleEventIds |-> NoOrigin]
  /\ lastDone = NoSnapshot

(***************************************************************************)
(* POST /watch                                                             *)
(***************************************************************************)
StartWatch(p, userId, calendarId) ==
  /\ Begin(p, [Idle EXCEPT !.kind = "watch", !.userId = userId,
                           !.calendarId = calendarId, !.pc = "w_account"])
  /\ UNCHANGED <<events, nextEventId, accounts, channels, nextChannelId,
                 remote, nextToken, faults, edits, maxInFlight, tz, script,
                 outward, lastDone>>

\* const account = await googleAccount.findUnique(...); 400 when there is
\* none; otherwise const channelId = crypto.randomUUID()
WatchAccount(p) ==
  /\ req[p].pc = "w_account"
  /\ IF ~accounts[req[p].userId].connected
       THEN /\ req' = [req EXCEPT ![p].pc = "done", ![p].status = 400]
            /\ UNCHANGED nextChannelId
       ELSE /\ nextChannelId <= MaxChannels
            /\ req' = [req EXCEPT ![p].pc = "w_watch",
                                  ![p].channelId = nextChannelId]
            /\ nextChannelId' = nextChannelId + 1
  /\ UNCHANGED <<events, nextEventId, accounts, channels, remote, nextToken,
                 started, faults, edits, maxInFlight, tz, script, outward,
                 lastDone>>

\* const watchRes = await calendar.events.watch(...): the remote answers with
\* the resource id and the expiration of the channel; 500 when either is
\* missing.
WatchRemote(p) ==
  /\ req[p].pc = "w_watch"
  /\ \E resourceId \in ResourceIds \cup {""}, expiration \in 0..MaxExpiration :
       req' = [req EXCEPT ![p] =
         IF resourceId = "" \/ expiration = 0
           THEN [req[p] EXCEPT !.pc = "done", !.status = 500]
           ELSE [req[p] EXCEPT !.pc = "w_prime", !.resourceId = resourceId,
                               !.expiration = expiration]]
  /\ UNCHANGED <<events, nextEventId, accounts, channels, nextChannelId,
                 remote, nextToken, started, faults, edits, maxInFlight, tz,
                 script, outward, lastDone>>

\* calendar.events.watch rejects: the route answers 500.
WatchRemoteFails(p) ==
  /\ req[p].pc = "w_watch"
  /\ faults < MaxFaults
  /\ faults' = faults + 1
  /\ req' = [req EXCEPT ![p].pc = "done", ![p].status = 500]
  /\ UNCHANGED <<events, nextEventId, accounts, channels, nextChannelId,
                 remote, nextToken, started, edits, maxInFlight, tz, script,
                 outward, lastDone>>

\* The priming calendar.events.list: syncToken = listRes.data.nextSyncToken
\* when the answer carries one.
WatchPrime(p) ==
  /\ req[p].pc = "w_prime"
  /\ \E withToken \in BOOLEAN :
       /\ withToken => nextToken <= MaxTokens
       /\ req' = [req EXCEPT ![p].pc = "w_upsert",
                             ![p].syncToken = IF withToken THEN nextToken ELSE 0]
       /\ nextToken' = IF withToken THEN nextToken + 1 ELSE nextToken
  /\ UNCHANGED <<events, nextEventId, accounts, channels, nextChannelId,
                 remote, started, faults, edits, maxInFlight, tz, script,
                 outward, lastDone>>

\* The priming list rejects: logged, syncToken stays null.
WatchPrimeFails(p) ==
  /\ req[p].pc = "w_prime"
  /\ faults < MaxFaults
  /\ faults' = faults + 1
  /\ req' = [req EXCEPT ![p].pc = "w_upsert", ![p].syncToken = 0]
  /\ UNCHANGED <<events, nextEventId, accounts, channels, nextChannelId,
                 remote, nextToken, started, edits, maxInFlight, tz, script,
                 outward, lastDone>>

\* googleChannel.update({ where: { resourceId }, data: { userId, calendarId,
\* channelId, expiration, syncToken: syncToken || undefined } })
UpdateByResourceIdMutant(rows, r) ==
  rows \cup {Channel(r.channelId, r.resourceId, r.userId, r.calendarId,
                     r.expiration, r.syncToken)}
UpdateByResourceId(rows, r) ==
  {IF c.resourceId = r.resourceId
     THEN [c EXCEPT !.userId = r.userId, !.calendarId = r.calendarId,
                    !.channelId = r.channelId, !.expiration = r.expiration,
                    !.syncToken = IF r.syncToken # 0 THEN r.syncToken ELSE @]
     ELSE c : c \in rows}

ResourceTakenMutant(rows, channelId, resourceId) == {}
\* The rows that make the store reject the upsert: resourceId is unique.
ResourceTaken(rows, channelId, resourceId) ==
  {c \in rows : c.channelId # channelId /\ c.resourceId = resourceId}

\* await googleChannel.upsert({ where: { channelId }, create, update }): the
\* row of that channel id is updated, or a row is created; the store rejects
\* it with P2002 when another row already has the resource id.
WatchUpsert(p) ==
  /\ req[p].pc = "w_upsert"
  /\ LET r == req[p]
         same == ChannelById(r.channelId)
         taken == ResourceTaken(channels, r.channelId, r.resourceId)
     IN IF taken # {}
          THEN /\ req' = [req EXCEPT ![p].pc = "w_collision"]
               /\ UNCHANGED channels
          ELSE /\ channels' =
                    IF same = {}
                      THEN channels \cup
                             {Channel(r.channelId, r.resourceId, r.userId,
                                      r.calendarId, r.expiration, r.syncToken)}
                      ELSE {IF c \in same
                              THEN [c EXCEPT
                                      !.calendarId = r.calendarId,
                                      !.resourceId = r.resourceId,
                                      !.expiration = r.expiration,
                                      !.syncToken = IF r.syncToken # 0
                                                      THEN r.syncToken ELSE @]
                              ELSE c : c \in channels}
               /\ req' = [req EXCEPT ![p].pc = "w_select"]
  /\ UNCHANGED <<events, nextEventId, accounts, nextChannelId, remote,
                 nextToken, started, faults, edits, maxInFlight, tz, script,
                 outward, lastDone>>

\* The upsert rejects with another error: rethrown, the route answers 500.
WatchUpsertFails(p) ==
  /\ req[p].pc = "w_upsert"
  /\ faults < MaxFaults
  /\ faults' = faults + 1
  /\ req' = [req EXCEPT ![p].pc = "done", ![p].status = 500]
  /\ UNCHANGED <<events, nextEventId, accounts, channels, nextChannelId,
                 remote, nextToken, started, edits, maxInFlight, tz, script,
                 outward, lastDone>>

\* The P2002 handler: the row that has the resource id is updated in place.
\* The update rejects when that row is gone by now: 500.
WatchCollision(p) ==
  /\ req[p].pc = "w_collision"
  /\ IF \E c \in channels : c.resourceId = req[p].resourceId
       THEN /\ channels' = UpdateByResourceId(channels, req[p])
            /\ req' = [req EXCEPT ![p].pc = "w_select"]
       ELSE /\ req' = [req EXCEPT ![p].pc = "done", ![p].status = 500]
            /\ UNCHANGED channels
  /\ UNCHANGED <<events, nextEventId, accounts, nextChannelId, remote,
                 nextToken, started, faults, edits, maxInFlight, tz, script,
                 outward, lastDone>>

\* await googleAccount.update({ where: { userId }, data: {
\* selectedCalendarId } }); it rejects when the account row is gone (500);
\* otherwise res.json({ channelId, resourceId, expiration })
WatchSelect(p) ==
  /\ req[p].pc = "w_select"
  /\ IF accounts[req[p].userId].connected
       THEN /\ accounts' = [accounts EXCEPT
                 ![req[p].userId].selectedCalendarId = req[p].calendarId]
            /\ req' = [req EXCEPT ![p].pc = "done", ![p].status = 200]
       ELSE /\ req' = [req EXCEPT ![p].pc = "done", ![p].status = 500]
            /\ UNCHANGED accounts
  /\ UNCHANGED <<events, nextEventId, channels, nextChannelId, remote,
                 nextToken, started, faults, edits, maxInFlight, tz, script,
                 outward, lastDone>>

\* The resource id the remote gives a watch: it identifies the watched
\* resource, the events of the calendar, whatever the channel.
ResourceOf(calendarId) == IF calendarId = "c1" THEN "r1" ELSE "r2"

\* const watchRes = await calendar.events.watch(...), the remote answering
\* with the watched calendar's resource id and an expiration.
WatchCalendar(p) ==
  /\ req[p].pc = "w_watch"
  /\ \E expiration \in 1..MaxExpiration :
       req' = [req EXCEPT ![p].pc = "w_prime",
                          ![p].resourceId = ResourceOf(req[p].calendarId),
                          ![p].expiration = expiration]
  /\ UNCHANGED <<events, nextEventId, accounts, channels, nextChannelId,
                 remote, nextToken, started, faults, edits, maxInFlight, tz,
                 script, outward, lastDone>>

(***************************************************************************)
(* DELETE /disconnect                                                      *)
(***************************************************************************)
StartDisconnect(p, userId) ==
  /\ Begin(p, [Idle EXCEPT !.kind = "disconnect", !.userId = userId,
                           !.pc = "dc_channels"])
  /\ UNCHANGED <<events, nextEventId, accounts, channels, nextChannelId,
                 remote, nextToken, faults, edits, maxInFlight, tz, script,
                 outward, lastDone>>

\* await googleChannel.deleteMany({ where: { userId } })
DisconnectChannels(p) ==
  /\ req[p].pc = "dc_channels"
  /\ channels' = {c \in channels : c.userId # req[p].userId}
  /\ req' = [req EXCEPT ![p].pc = "dc_account"]
  /\ UNCHANGED <<events, nextEventId, accounts, nextChannelId, remote,
                 nextToken, started, faults, edits, maxInFlight, tz, script,
                 outward, lastDone>>

\* await googleAccount.deleteMany({ where: { userId } }), then
\* res.json({ disconnected: true })
DisconnectAccount(p) ==
  /\ req[p].pc = "dc_account"
  /\ accounts' = [accounts EXCEPT ![req[p].userId] = NoAccount]
  /\ req' = [req EXCEPT ![p].pc = "done", ![p].status = 200]
  /\ UNCHANGED <<events, nextEventId, channels, nextChannelId, remote,
                 nextToken, started, faults, edits, maxInFlight, tz, script,
                 outward, lastDone>>

\* Either deleteMany rejects (store error): the route answers 500.
DisconnectFails(p) ==
  /\ req[p].pc \in {"dc_channels", "dc_account"}
  /\ faults < MaxFaults
  /\ faults' = faults + 1
  /\ req' = [req EXCEPT ![p].pc = "done", ![p].status = 500]
  /\ UNCHANGED <<events, nextEventId, accounts, channels, nextChannelId,
                 remote, nextToken, started, edits, maxInFlight, tz, script,
                 outward, lastDone>>

(***************************************************************************)
(* SpecPull: inbound pulls, one request at a time                          *)
(***************************************************************************)
PullStep(p) ==
  \/ SyncAccount(p)
  \/ ListPage(p)
  \/ ListFails(p)
  \/ DeleteCancelled(p)
  \/ FindExisting(p)
  \/ UpsertItem(p)
  \/ UpsertFails(p)
  \/ PersistCursor(p)

PullRoutes(p) ==
  \/ StartWebhook(p)
  \/ WebhookChannel(p)
  \/ \E u \in Users : StartSyncNow(p, u)
  \/ SyncNowAccount(p)
  \/ SyncNowChannel(p)
  \/ \E u \in Users : StartBackfill(p, u)
  \/ BackfillAccount(p)

NextPull ==
  \/ \E p \in Procs : PullRoutes(p) \/ PullStep(p) \/ Finish(p)
  \/ \E g \in GoogleEventIds : ExternalEdit(g) \/ ExternalCancel(g)

InitPull == InitConnected /\ maxInFlight = 1
SpecPull == InitPull /\ [][NextPull]_vars

(***************************************************************************)
(* Properties of inbound pulls                                             *)
(***************************************************************************)
Pulling == {p \in Procs : IsPull(req[p])}

\* The pull has fetched a page and finished processing it: it is about to
\* fetch the next one, to write the cursor, or has returned.
PageProcessed(p) ==
  /\ IsPull(req[p])
  /\ req[p].pageCount >= 1
  /\ \/ req[p].pc \in {"list", "persist"}
     \/ req[p].pc = "done" /\ req[p].syncResult = "returned"

\* C1: for any sequence of inbound pulls, no two local events of the same
\* user hold the same (googleCalendarId, googleEventId) pair.
NoDuplicateRemoteId ==
  \A e1 \in events, e2 \in events :
    (/\ e1.googleEventId # 0
     /\ e1.userId = e2.userId
     /\ e1.googleCalendarId = e2.googleCalendarId
     /\ e1.googleEventId = e2.googleEventId) => e1.id = e2.id

\* A pull met a remote item that already had a local row, and updated it.
PullUpdatedExistingRow ==
  \E p \in Pulling : req[p].updated > 0 /\ req[p].created > 0


\* The step is one of pull p.
StepOf(p) == req'[p] # req[p]

\* C4: a pull follows next-page tokens until none is returned, and the cursor
\* is written to the channel only after the last page has been processed, by
\* the pull that fetched it, and is the cursor of the final page: a pull
\* leaves its page loop only when the page just processed carried no next-page
\* token; it fetches the next page only once every upsert of the current one
\* has settled; and a channel row changes only in the step of a pull that has
\* left the loop, which sets the cursor of the row of its own channel id to
\* the nextSyncToken it holds and changes nothing else.
PaginationThenCursor ==
  [][\A p \in Procs :
       /\ (/\ StepOf(p)
           /\ req[p].pc \in {"find", "batch"}
           /\ req'[p].pc \in {"persist", "done"})
            => (req[p].pageToken = 0 /\ req'[p].pending = {})
       /\ (/\ StepOf(p)
           /\ req[p].pc \in {"find", "batch"}
           /\ req'[p].pc = "list")
            => (req[p].pageToken # 0 /\ req'[p].pending = {})
       /\ (StepOf(p) /\ IsPull(req[p]) /\ channels' # channels)
            => (/\ req[p].pc = "persist"
                /\ req[p].pageToken = 0
                /\ req[p].nextSyncToken # 0
                /\ req[p].nextSyncToken = nextToken - 1
                /\ channels' = {IF c.channelId = req[p].channelId
                                  THEN [c EXCEPT !.syncToken = req[p].nextSyncToken]
                                  ELSE c : c \in channels})]_vars

\* A two-page pull has returned after writing the final page's cursor to its
\* channel.
TwoPagePullWroteCursor ==
  \E p \in Pulling :
    /\ req[p].pc = "done" /\ req[p].syncResult = "returned"
    /\ req[p].pageCount = MaxPages
    /\ req[p].created > 0
    /\ \E c \in channels :
         c.channelId = req[p].channelId /\ c.syncToken = req[p].nextSyncToken
                                        /\ c.syncToken # 0

\* C8: a cancelled remote item deletes the matching rows of the pulling user
\* and nothing else: the delete step removes exactly the pulling user's rows
\* whose googleEventId is among the page's cancelled ids and leaves every other
\* row as it is (with no matching row it removes nothing and the pull goes
\* on); a cancelled item is never upserted; and once the page is processed no
\* row of the pulling user carries a cancelled id of that page.
CancelledItemsDeleted ==
  /\ [](\A p \in Procs :
          /\ SeqToSet(req[p].cancelledEventIds)
               \cap {req[p].validEvents[k].id : k \in 1..Len(req[p].validEvents)} = {}
          /\ PageProcessed(p) =>
               RowsOf(req[p].userId, SeqToSet(req[p].cancelledEventIds)) = {})
  /\ [][\A p \in Procs :
          (StepOf(p) /\ req[p].pc = "delete") =>
             /\ req'[p].pc = "find"
             /\ events' \subseteq events
             /\ events \ events'
                  = RowsOf(req[p].userId, SeqToSet(req[p].cancelledEventIds))
             /\ req'[p].deleted
                  = req[p].deleted + Cardinality(events \ events')]_vars

\* A pull has deleted a row for a cancelled item.
PullDeletedCancelledRow ==
  \E p \in Pulling : req[p].deleted > 0 /\ req[p].pc = "find"

\* The row an upsert of valid event ev by pull r leaves behind.
Applied(r, ev) ==
  \E e \in events :
    /\ e.userId = r.userId
    /\ e.googleEventId = ev.id
    /\ LET data == EventData(ev, r.calendarId)
       IN /\ e.startTime = data.startTime /\ e.endTime = data.endTime
          /\ e.allDay = data.allDay /\ e.title = data.title
          /\ e.googleCalendarId = r.calendarId

\* C9: an active remote item missing its start or its end is skipped and the
\* pull goes on: no row is ever created or rewritten from such an item (every
\* row a step adds or changes has a start and an end), and once a page is
\* processed every well-formed active item of it whose upsert did not reject
\* has its local row, whatever else the page held.
MalformedItemSkipped ==
  /\ [](\A p \in Procs :
          PageProcessed(p) =>
            \A k \in 1..Len(req[p].validEvents) :
              req[p].validEvents[k].id \notin req[p].failedIds
                => Applied(req[p], req[p].validEvents[k]))
  /\ [][\A e \in events' \ events :
          e.startTime # Nil /\ e.endTime # Nil]_vars

\* A one-page pull whose page held a malformed item and a well-formed one has
\* returned: the well-formed item was created and the cursor persisted.
PullSkippedMalformedItem ==
  \E p \in Pulling :
    /\ req[p].pc = "done" /\ req[p].syncResult = "returned"
    /\ req[p].pageCount = 1 /\ req[p].total = 2
    /\ Len(req[p].validEvents) = 1 /\ Len(req[p].cancelledEventIds) = 0
    /\ req[p].created = 1
    /\ \E c \in channels :
         c.channelId = req[p].channelId /\ c.syncToken = req[p].nextSyncToken
                                        /\ c.syncToken # 0


(***************************************************************************)
(* SpecConcurrentPull: a webhook pull and a sync-now pull of the same user *)
(* and channel, interleaving at their suspension points. The remote        *)
(* calendar holds one event and one deleted event and does not change.     *)
(***************************************************************************)
InitConcurrentPull ==
  /\ events = {}
  /\ nextEventId = 1
  /\ accounts = [u \in Users |-> Account("c1")]
  /\ channels = {Channel(1, "r1", "u1", "c1", 1, 0)}
  /\ nextChannelId = 2
  /\ remote = [g \in GoogleEventIds |->
                 IF g = 1 THEN RemoteItem("c1", "confirmed", TimedPayload)
                 ELSE [AbsentItem EXCEPT !.cal = "c1", !.status = "cancelled"]]
  /\ nextToken = 1
  /\ req = [p \in Procs |-> Idle]
  /\ started = 0
  /\ faults = MaxFaults
  /\ edits = MaxEdits
  /\ maxInFlight = 2
  /\ tz = 0
  /\ script = <<>>
  /\ outward = [g \in GoogleEventIds |-> NoOrigin]
  /\ lastDone = NoSnapshot

NextConcurrentPull ==
  \E p \in Procs :
    \/ StartWebhook(p)
    \/ WebhookChannel(p)
    \/ StartSyncNow(p, "u1")
    \/ SyncNowAccount(p)
    \/ SyncNowChannel(p)
    \/ SyncAccount(p)
    \/ ListPage(p)
    \/ DeleteCancelled(p)
    \/ FindExisting(p)
    \/ UpsertItem(p)
    \/ PersistCursor(p)
    \/ Finish(p)

SpecConcurrentPull == InitConcurrentPull /\ [][NextConcurrentPull]_vars

\* C2: when two pulls for the same channel run concurrently, only the
\* persisted cursor can be stale-overwritten: once both have returned, no
\* event is duplicated (no two rows of a user hold the same remote event id).
ConcurrentPullsNeverDuplicate ==
  (\A p \in Procs : req[p].kind = "idle" \/ req[p].pc = "done") =>
    \A e1 \in events, e2 \in events :
      (e1.googleEventId # 0 /\ e1.userId = e2.userId
         /\ e1.googleEventId = e2.googleEventId) => e1.id = e2.id

(***************************************************************************)
(* SpecOutbound: POST /events of a connected user whose calendar is        *)
(* watched, interleaving with webhook pulls of that calendar. Nothing      *)
(* fails and nobody else changes the remote calendar.                      *)
(***************************************************************************)
InitOutbound ==
  /\ events = {}
  /\ nextEventId = 1
  /\ accounts = [u \in Users |-> IF u = "u1" THEN Account("c1") ELSE NoAccount]
  /\ channels = {Channel(1, "r1", "u1", "c1", 1, 0)}
  /\ nextChannelId = 2
  /\ remote = [g \in GoogleEventIds |-> AbsentItem]
  /\ nextToken = 1
  /\ req = [p \in Procs |-> Idle]
  /\ started = 0
  /\ faults = MaxFaults
  /\ edits = MaxEdits
  /\ maxInFlight = 2
  /\ tz = 0
  /\ script = <<>>
  /\ outward = [g \in GoogleEventIds |-> NoOrigin]
  /\ lastDone = NoSnapshot

\* The remote calendar holds no deleted event here, so a page never has a
\* cancelled item and the delete step is never reached.
NextOutbound ==
  \E p \in Procs :
    \/ StartCreateEvent(p, "u1")
    \/ OutAccount(p)
    \/ OutRemote(p)
    \/ OutWriteBack(p)
    \/ StartWebhook(p)
    \/ WebhookChannel(p)
    \/ SyncAccount(p)
    \/ ListPage(p)
    \/ FindExisting(p)
    \/ UpsertItem(p)
    \/ PersistCursor(p)
    \/ Finish(p)

SpecOutbound == InitOutbound /\ [][NextOutbound]_vars

Quiescent == \A p \in Procs : req[p].kind = "idle" \/ req[p].pc = "done"

\* C3: under any interleaving of syncToGoogle's create path with a concurrent
\* inbound pull, once both requests are over the store holds exactly one row
\* for the remote id the create path was given.
OneRowPerPropagatedEvent ==
  Quiescent =>
    \A g \in GoogleEventIds :
      outward[g].set => Cardinality({e \in events : e.googleEventId = g}) = 1

(***************************************************************************)
(* SpecRoundTrip: POST /events followed by pulls of the same calendar, one *)
(* request at a time, on a server in any of the time zones TzOffsets.      *)
(***************************************************************************)
InitRoundTrip ==
  /\ events = {}
  /\ nextEventId = 1
  /\ accounts = [u \in Users |-> IF u = "u1" THEN Account("c1") ELSE NoAccount]
  /\ channels = {Channel(1, "r1", "u1", "c1", 1, 0)}
  /\ nextChannelId = 2
  /\ remote = [g \in GoogleEventIds |-> AbsentItem]
  /\ nextToken = 1
  /\ req = [p \in Procs |-> Idle]
  /\ started = 0
  /\ faults = MaxFaults
  /\ edits = MaxEdits
  /\ maxInFlight = 1
  /\ tz \in TzOffsets
  /\ script = <<>>
  /\ outward = [g \in GoogleEventIds |-> NoOrigin]
  /\ lastDone = NoSnapshot

NextRoundTrip ==
  \E p \in Procs :
    \/ StartCreateEvent(p, "u1")
    \/ OutAccount(p)
    \/ OutRemote(p)
    \/ OutWriteBack(p)
    \/ StartBackfill(p, "u1")
    \/ BackfillAccount(p)
    \/ SyncAccount(p)
    \/ ListPage(p)
    \/ FindExisting(p)
    \/ UpsertItem(p)
    \/ Finish(p)

SpecRoundTrip == InitRoundTrip /\ [][NextRoundTrip]_vars

\* C6: an all-day event mapped outward and pulled back keeps its start and end
\* days: between requests, every row linked to a remote event that
\* syncToGoogle wrote from an all-day event has the start and end times that
\* event had when it was mapped outward.
AllDayRoundTripIsIdentity ==
  Quiescent =>
    \A e \in events :
      (/\ e.googleEventId # 0
       /\ outward[e.googleEventId].set
       /\ outward[e.googleEventId].allDay)
        => /\ e.allDay
           /\ e.startTime = outward[e.googleEventId].startTime
           /\ e.endTime = outward[e.googleEventId].endTime

(***************************************************************************)
(* SpecEvents: POST /events and PATCH /events/:id, one request at a time,  *)
(* with a failure injected into any step of syncToGoogle and the remote    *)
(* calendar changing from outside.                                         *)
(***************************************************************************)
InitEvents ==
  /\ events = {}
  /\ nextEventId = 1
  /\ accounts = [u \in Users |-> IF u = "u1" THEN Account("c1") ELSE NoAccount]
  /\ channels = {}
  /\ nextChannelId = 1
  /\ remote = [g \in GoogleEventIds |-> AbsentItem]
  /\ nextToken = 1
  /\ req = [p \in Procs |-> Idle]
  /\ started = 0
  /\ faults = 0
  /\ edits = 0
  /\ maxInFlight = 1
  /\ tz = 0
  /\ script = <<>>
  /\ outward = [g \in GoogleEventIds |-> NoOrigin]
  /\ lastDone = NoSnapshot

NextEvents ==
  \/ \E p \in Procs :
       \/ \E u \in Users : StartCreateEvent(p, u)
       \/ \E u \in Users : StartUpdateEvent(p, u)
       \/ UpdateEventRow(p)
       \/ OutAccount(p)
       \/ OutAccountFails(p)
       \/ OutRemote(p)
       \/ OutRemoteFails(p)
       \/ OutWriteBack(p)
       \/ OutWriteBackFails(p)
       \/ Finish(p)
  \/ \E g \in GoogleEventIds : ExternalEdit(g) \/ ExternalCancel(g)

SpecEvents == InitEvents /\ [][NextEvents]_vars

\* C7: a failure of any step of syncToGoogle is caught: the local mutation
\* stays committed and the route answers 201 (create) or 200 (update). Every
\* create or update request that is over and had committed its row has that
\* row in the store and answered with its success status.
OutboundFailureNeverReachesCaller ==
  \A p \in Procs :
    (/\ req[p].kind \in {"create", "update"}
     /\ req[p].pc = "done"
     /\ req[p].event # NoEvent)
      => /\ \E e \in events :
              /\ e.id = req[p].event.id
              /\ e.title = req[p].event.title
              /\ e.startTime = req[p].event.startTime
              /\ e.endTime = req[p].event.endTime
         /\ req[p].status = IF req[p].kind = "create" THEN 201 ELSE 200

(***************************************************************************)
(* SpecWatch: POST /watch requests of two connected users, interleaving,   *)
(* with a failure injected into any of its calls.                          *)
(***************************************************************************)
InitWatch ==
  /\ events = {}
  /\ nextEventId = 1
  /\ accounts = [u \in Users |-> Account("")]
  /\ channels = {}
  /\ nextChannelId = 1
  /\ remote = [g \in GoogleEventIds |-> AbsentItem]
  /\ nextToken = 1
  /\ req = [p \in Procs |-> Idle]
  /\ started = 0
  /\ faults = 0
  /\ edits = MaxEdits
  /\ maxInFlight = 2
  /\ tz = 0
  /\ script = <<>>
  /\ outward = [g \in GoogleEventIds |-> NoOrigin]
  /\ lastDone = NoSnapshot

NextWatch ==
  \E p \in Procs :
    \/ \E u \in Users, c \in Calendars : StartWatch(p, u, c)
    \/ WatchAccount(p)
    \/ WatchRemote(p)
    \/ WatchRemoteFails(p)
    \/ WatchPrime(p)
    \/ WatchPrimeFails(p)
    \/ WatchUpsert(p)
    \/ WatchUpsertFails(p)
    \/ WatchCollision(p)
    \/ WatchSelect(p)
    \/ Finish(p)

SpecWatch == InitWatch /\ [][NextWatch]_vars

\* C10: when the channel upsert collides on the unique resource id, the
\* existing row of that resource id is updated in place with the new user,
\* calendar, channel id and expiration (and the new cursor when one was
\* primed), no row is added or removed (the colliding upsert itself writes
\* nothing and does not count as saved), and at all times at most one row
\* exists per resource id and per channel id.
ChannelCollisionUpdatesInPlace ==
  /\ [](\A c1 \in channels, c2 \in channels :
          (c1.resourceId = c2.resourceId \/ c1.channelId = c2.channelId)
            => c1 = c2)
  /\ [][\A p \in Procs :
          LET hit == {c \in channels : c.resourceId = req[p].resourceId}
          IN /\ (StepOf(p) /\ req[p].pc = "w_upsert" /\ hit # {})
                  => (channels' = channels /\ req'[p].pc # "w_select")
             /\ (StepOf(p) /\ req[p].pc = "w_collision" /\ hit # {})
                  => /\ Cardinality(channels') = Cardinality(channels)
                     /\ channels \ hit \subseteq channels'
                     /\ \E c \in hit :
                          [c EXCEPT
                             !.userId = req[p].userId,
                             !.calendarId = req[p].calendarId,
                             !.channelId = req[p].channelId,
                             !.expiration = req[p].expiration,
                             !.syncToken = IF req[p].syncToken # 0
                                             THEN req[p].syncToken ELSE @]
                            \in channels']_vars

\* Two watches have succeeded, the second one collided on the resource id of
\* the first: the one row left carries the second one's channel id, user and
\* calendar.
WatchCollidedAndUpdatedRow ==
  \E p \in Procs, q \in Procs :
    /\ req[p].kind = "watch" /\ req[p].pc = "done" /\ req[p].status = 200
    /\ req[q].kind = "watch" /\ req[q].pc = "done" /\ req[q].status = 200
    /\ req[p].channelId # req[q].channelId
    /\ req[p].userId # req[q].userId
    /\ channels = {Channel(req[q].channelId, req[q].resourceId, req[q].userId,
                           req[q].calendarId, req[q].expiration,
                           IF req[q].syncToken # 0 THEN req[q].syncToken
                           ELSE req[p].syncToken)}

(***************************************************************************)
(* SpecIdem: pulls of one user, one at a time, against a remote calendar   *)
(* that does not change and serves every pull the same listing.            *)
(***************************************************************************)
CancelledScriptItem == [AbsentItem EXCEPT !.cal = "c1", !.status = "cancelled"]

ScriptItems ==
  {RemoteItem("c1", "confirmed", AllDayPayload),
   RemoteItem("c1", "confirmed", TimedPayload),
   RemoteItem("c1", "confirmed", NoStartPayload),
   CancelledScriptItem}

\* The listings: two events, on one page or on two.
Scripts ==
  {<< <<ItemOf(1, a), ItemOf(2, b)>> >> : a \in ScriptItems, b \in ScriptItems}
    \cup
  {<< <<ItemOf(1, a)>>, <<ItemOf(2, b)>> >> : a \in ScriptItems, b \in ScriptItems}

\* A row an earlier pull of the user made for remote event 2, since edited
\* locally.
EarlierRow ==
  [NewRow(1, "u1", 2, EventData(ValidEvent(ItemOf(2, RemoteItem("c1",
      "confirmed", TimedPayload))), "c1")) EXCEPT !.title = "mine"]

InitIdem ==
  /\ script \in Scripts
  /\ \/ events = {} /\ nextEventId = 1
     \/ events = {EarlierRow} /\ nextEventId = 2
  /\ accounts = [u \in Users |-> IF u = "u1" THEN Account("c1") ELSE NoAccount]
  /\ channels = {Channel(1, "r1", "u1", "c1", 1, 0)}
  /\ nextChannelId = 2
  /\ remote = [g \in GoogleEventIds |-> AbsentItem]
  /\ nextToken = 1
  /\ req = [p \in Procs |-> Idle]
  /\ started = 0
  /\ faults = MaxFaults
  /\ edits = MaxEdits
  /\ maxInFlight = 1
  /\ tz = 0
  /\ outward = [g \in GoogleEventIds |-> NoOrigin]
  /\ lastDone = NoSnapshot

\* The listing carries no new cursor, so no cursor is written.
NextIdem ==
  \E p \in Procs :
    \/ StartWebhook(p)
    \/ WebhookChannel(p)
    \/ StartSyncNow(p, "u1")
    \/ SyncNowAccount(p)
    \/ SyncNowChannel(p)
    \/ StartBackfill(p, "u1")
    \/ BackfillAccount(p)
    \/ SyncAccount(p)
    \/ ListScriptedPage(p)
    \/ DeleteCancelled(p)
    \/ FindExisting(p)
    \/ UpsertItem(p)
    \/ Finish(p)

SpecIdem == InitIdem /\ [][NextIdem]_vars

\* The pull in slot p has returned, and it is a second run: the previous pull
\* returned too, for the same user and calendar, listing the same way.
SecondRunReturned(p) ==
  /\ IsPull(req[p])
  /\ req[p].pc = "done" /\ req[p].syncResult = "returned"
  /\ lastDone.valid
  /\ lastDone.userId = req[p].userId
  /\ lastDone.calendarId = req[p].calendarId
  /\ lastDone.listMode = req[p].listMode
  /\ lastDone.windowDays = req[p].windowDays

RECURSIVE ValidCount(_)
ValidCount(pages) ==
  IF pages = <<>> THEN 0
  ELSE Len(ValidEvents(Head(pages))) + ValidCount(Tail(pages))

\* C5 (as the code has it): a second run of syncFromGoogle after a successful
\* one, against an unchanged remote with the same cursor or window, creates
\* nothing, deletes nothing and leaves the event store unchanged, while its
\* updated counter is the number of well-formed active items listed: every
\* such item rewrites its row with the same values.
SecondRunLeavesStoreUnchanged ==
  \A p \in Procs :
    SecondRunReturned(p) =>
      /\ req[p].created = 0
      /\ req[p].deleted = 0
      /\ events = lastDone.rows
      /\ req[p].updated = ValidCount(script)

\* A second run over a listing of two well-formed active items has returned.
SecondRunRewroteBothRows ==
  \E p \in Procs : SecondRunReturned(p) /\ req[p].updated = MaxGoogleIds

\* C5 (as stated): the second run yields zero created, zero updated and zero
\* deleted, and leaves the event store unchanged.
SecondRunCountsNothing ==
  \A p \in Procs :
    SecondRunReturned(p) =>
      /\ req[p].created = 0
      /\ req[p].updated = 0
      /\ req[p].deleted = 0
      /\ events = lastDone.rows

(***************************************************************************)
(* SpecChannels: watch, sync-now, backfill, webhook and disconnect         *)
(* requests of two users, one at a time, from a registry that is empty or  *)
(* holds the channel of an earlier watch. The remote calendars are empty.  *)
(***************************************************************************)
InitChannels ==
  /\ \/ /\ channels = {}
        /\ nextChannelId = 1
        /\ accounts = [u \in Users |-> Account("")]
     \/ /\ channels = {Channel(1, ResourceOf("c1"), "u1", "c1", 1, 0)}
        /\ nextChannelId = 2
        /\ accounts = [u \in Users |->
                         IF u = "u1" THEN Account("c1") ELSE Account("")]
  /\ events = {}
  /\ nextEventId = 1
  /\ remote = [g \in GoogleEventIds |-> AbsentItem]
  /\ nextToken = 1
  /\ req = [p \in Procs |-> Idle]
  /\ started = 0
  /\ faults = 0
  /\ edits = MaxEdits
  /\ maxInFlight = 1
  /\ tz = 0
  /\ script = <<>>
  /\ outward = [g \in GoogleEventIds |-> NoOrigin]
  /\ lastDone = NoSnapshot

\* The remote calendars hold no event, so every page is empty and a pull
\* never reaches its delete or upsert steps.
NextChannels ==
  \E p \in Procs :
    \/ \E u \in Users, c \in Calendars : StartWatch(p, u, c)
    \/ WatchAccount(p)
    \/ WatchCalendar(p)
    \/ WatchRemoteFails(p)
    \/ WatchPrime(p)
    \/ WatchPrimeFails(p)
    \/ WatchUpsert(p)
    \/ WatchUpsertFails(p)
    \/ WatchCollision(p)
    \/ WatchSelect(p)
    \/ \E u \in Users : StartDisconnect(p, u)
    \/ DisconnectChannels(p)
    \/ DisconnectAccount(p)
    \/ DisconnectFails(p)
    \/ PullRoutes(p)
    \/ SyncAccount(p)
    \/ ListPage(p)
    \/ ListFails(p)
    \/ FindExisting(p)
    \/ PersistCursor(p)
    \/ Finish(p)

SpecChannels == InitChannels /\ [][NextChannels]_vars

InitWebhook ==
  /\ events = {}
  /\ nextEventId = 1
  /\ accounts = [u \in Users |-> Account("c1")]
  /\ channels = {Channel(1, "r1", "u1", "c1", 1, 0)}
  /\ nextChannelId = 2
  /\ remote = [g \in GoogleEventIds |->
                 IF g = 1 THEN RemoteItem("c1", "confirmed", TimedPayload)
                 ELSE [AbsentItem EXCEPT !.cal = "c1", !.status = "cancelled"]]
  /\ nextToken = 1
  /\ req = [p \in Procs |-> Idle]
  /\ started = 0
  /\ faults = 0
  /\ edits = MaxEdits
  /\ maxInFlight = 2
  /\ tz = 0
  /\ script = <<>>
  /\ outward = [g \in GoogleEventIds |-> NoOrigin]
  /\ lastDone = NoSnapshot

NextWebhook ==
  \E p \in Procs :
    \/ StartWebhook(p)
    \/ WebhookChannel(p)
    \/ WebhookChannelFails(p)
    \/ PullStep(p)
    \/ StartDisconnect(p, "u1")
    \/ DisconnectChannels(p)
    \/ DisconnectAccount(p)
    \/ DisconnectFails(p)
    \/ Finish(p)

SpecWebhook == InitWebhook /\ [][NextWebhook]_vars

\* C12: the webhook endpoint answers 200 before any channel lookup or pull
\* step, and whatever happens afterwards (missing headers, unknown channel,
\* missing credential, remote list error, store error) the answer stays that
\* 200; when the channel is found, the pull is invoked for the channel's user
\* and calendar with forceFull = false and the channel's stored cursor.
WebhookAcknowledgesFirst ==
  /\ [](\A p \in Procs : req[p].kind = "webhook" => req[p].status = 200)
  /\ [][\A p \in Procs :
          /\ (req[p].kind = "idle" /\ req'[p].kind = "webhook")
               => /\ req'[p].status = 200
                  /\ req'[p].pc \in {"wh_channel", "done"}
                  /\ req'[p].pageCount = 0
                  /\ <<events, channels, accounts, remote>>'
                       = <<events, channels, accounts, remote>>
          /\ (StepOf(p) /\ req[p].pc = "wh_channel"
                /\ req'[p].pc = "sync_account")
               => \E c \in channels :
                    /\ c.channelId = req[p].channelId
                    /\ req'[p].userId = c.userId
                    /\ req'[p].calendarId = c.calendarId
                    /\ req'[p].channelId = c.channelId
                    /\ req'[p].syncToken = c.syncToken
                    /\ req'[p].forceFull = FALSE]_vars

\* A webhook's pull has thrown (list error, or the channel row was gone when
\* the cursor was to be written) and the answer is the 200 sent at the start.
WebhookPullThrewAfterAck ==
  \E p \in Procs :
    /\ req[p].kind = "webhook" /\ req[p].pc = "done"
    /\ req[p].syncResult = "thrown" /\ req[p].status = 200

\* The stores and the remote calls issued so far.
Stores == <<events, nextEventId, accounts, channels, nextChannelId, nextToken,
            remote>>

\* No channel row has the channel id.
NoRowHas(channelId) == \A c \in channels : c.channelId # channelId

\* C13: a webhook notification without the channel-id header or without the
\* resource-id header, or whose channel id matches no channel row, is a
\* no-op: the handler ends there, having issued no remote call and changed
\* no local event, no channel row (cursors included) and no credential
\* record.
WebhookWithoutChannelIsNoOp ==
  /\ [](\A p \in Procs :
          (/\ req[p].kind = "webhook"
           /\ req[p].pc = "wh_channel" => NoRowHas(req[p].channelId)
           /\ req[p].pc \in {"wh_channel", "done"}
           /\ req[p].syncResult = "")
            => (req[p].pageCount = 0 /\ req[p].created = 0
                  /\ req[p].updated = 0 /\ req[p].deleted = 0))
  /\ [][\A p \in Procs :
          /\ (/\ req[p].kind = "idle" /\ req'[p].kind = "webhook"
              /\ (req'[p].channelId = 0 \/ req'[p].resourceId = ""))
               => (req'[p].pc = "done" /\ Stores' = Stores)
          /\ (/\ StepOf(p) /\ req[p].pc = "wh_channel"
              /\ NoRowHas(req[p].channelId))
               => (req'[p].pc = "done" /\ Stores' = Stores)]_vars

\* A notification with both headers and a channel id no row has was handled
\* (the lookup did not fail): the handler is over and no pull ran.
WebhookForUnknownChannelEnded ==
  \E p \in Procs :
    /\ req[p].kind = "webhook" /\ req[p].pc = "done"
    /\ req[p].channelId # 0 /\ req[p].resourceId # ""
    /\ NoRowHas(req[p].channelId)
    /\ faults = 0 /\ channels # {}
    /\ req[p].syncResult = ""

\* C14: once pagination is exhausted, the pull writes the new cursor onto
\* the channel row of its channel id if and only if it obtained a new cursor
\* and was given a channel id; a pull without a channel id (backfill, sync-now
\* of a user with no channel for the selected calendar) changes no channel
\* row, and a pull that obtained no new cursor changes no stored cursor.
CursorWrittenIffObtainedAndChannel ==
  /\ [](\A p \in Procs :
          (IsPull(req[p]) /\ req[p].pc = "done"
             /\ req[p].syncResult = "returned" /\ req[p].pageCount >= 1
             /\ req[p].nextSyncToken # 0 /\ req[p].channelId # 0)
            => \E c \in channels :
                 /\ c.channelId = req[p].channelId
                 /\ c.syncToken = req[p].nextSyncToken)
  /\ [][\A p \in Procs :
          /\ (/\ StepOf(p) /\ req[p].pc \in {"find", "batch"}
              /\ req'[p].pc \in {"persist", "done"})
               => (req'[p].pc = "persist"
                     <=> (req[p].nextSyncToken # 0 /\ req[p].channelId # 0))
          /\ (/\ StepOf(p) /\ IsPull(req[p])
              /\ (req[p].channelId = 0 \/ req[p].nextSyncToken = 0))
               => channels' = channels
          /\ (StepOf(p) /\ req[p].pc = "persist")
               => /\ req'[p].syncResult = "returned"
                  /\ \A c \in channels :
                       IF c.channelId = req[p].channelId
                         THEN [c EXCEPT !.syncToken = req[p].nextSyncToken]
                                \in channels'
                         ELSE c \in channels']_vars

\* A backfill has returned with a new cursor and no channel id: the channel
\* row of its user still has no cursor.
BackfillLeftCursorUnwritten ==
  \E p \in Procs :
    /\ req[p].kind = "backfill" /\ req[p].userId = "u1"
    /\ req[p].pc = "done" /\ req[p].syncResult = "returned"
    /\ req[p].nextSyncToken # 0
    /\ \E c \in channels : c.userId = "u1"
    /\ \A c \in channels : c.syncToken = 0

\* C15: a remote error during any page fetch aborts the pull: nothing is
\* written in that step (the rows earlier pages applied remain, the stored
\* cursor stays as it was), the pull throws, and the caller sees it: the
\* webhook's answer stays the 200 already sent, sync-now and backfill answer
\* 500. The cursor of the pull's channel is still the one the pull was given.
ListErrorAbortsPull ==
  /\ [][\A p \in Procs :
          (StepOf(p) /\ req[p].pc = "list" /\ faults' # faults)
            => /\ req'[p].pc = "done"
               /\ req'[p].syncResult = "thrown"
               /\ req'[p].status = IF req[p].kind = "webhook" THEN 200 ELSE 500
               /\ events' = events
               /\ channels' = channels
               /\ \A c \in channels :
                    c.channelId = req[p].channelId
                      => c.syncToken = req[p].syncToken]_vars
  /\ [](\A p \in Procs :
          (IsPull(req[p]) /\ req[p].syncResult = "thrown")
            => req[p].status = IF req[p].kind = "webhook" THEN 200 ELSE 500)

\* A sync-now pull applied its first page, failed to fetch the second and
\* answered 500; the row the first page created is there.
SecondPageFetchFailed ==
  \E p \in Procs :
    /\ req[p].kind = "syncNow" /\ req[p].pc = "done"
    /\ req[p].syncResult = "thrown" /\ req[p].status = 500
    /\ req[p].pageCount = 1 /\ req[p].created = 1
    /\ \E e \in events : e.userId = req[p].userId

InitCredential ==
  /\ events = {}
  /\ nextEventId = 1
  /\ accounts = [u \in Users |-> Account("c1")]
  /\ channels = {Channel(1, "r1", "u1", "c1", 1, 0)}
  /\ nextChannelId = 2
  /\ remote = [g \in GoogleEventIds |->
                 IF g = 1 THEN RemoteItem("c1", "confirmed", TimedPayload)
                 ELSE [AbsentItem EXCEPT !.cal = "c1", !.status = "cancelled"]]
  /\ nextToken = 1
  /\ req = [p \in Procs |-> Idle]
  /\ started = 0
  /\ faults = MaxFaults
  /\ edits = MaxEdits
  /\ maxInFlight = 2
  /\ tz = 0
  /\ script = <<>>
  /\ outward = [g \in GoogleEventIds |-> NoOrigin]
  /\ lastDone = NoSnapshot

NextCredential ==
  \E p \in Procs :
    \/ StartWebhook(p)
    \/ WebhookChannel(p)
    \/ StartSyncNow(p, "u1")
    \/ SyncNowAccount(p)
    \/ SyncNowChannel(p)
    \/ StartBackfill(p, "u1")
    \/ BackfillAccount(p)
    \/ SyncAccount(p)
    \/ ListPage(p)
    \/ DeleteCancelled(p)
    \/ FindExisting(p)
    \/ UpsertItem(p)
    \/ PersistCursor(p)
    \/ StartDisconnect(p, "u1")
    \/ DisconnectChannels(p)
    \/ DisconnectAccount(p)
    \/ Finish(p)

SpecCredential == InitCredential /\ [][NextCredential]_vars

\* C17: when the pulling user has no credential record, syncFromGoogle ends
\* early, having issued no remote call and changed no event and no channel
\* row, and the caller is told that the pull did not happen: a sync-now or
\* backfill request whose pull ended that way does not answer with success.
MissingCredentialIsReported ==
  \A p \in Procs :
    (IsPull(req[p]) /\ req[p].pc = "done" /\ req[p].syncResult = "noaccount")
      => /\ req[p].pageCount = 0
         /\ req[p].created = 0 /\ req[p].updated = 0 /\ req[p].deleted = 0
         /\ req[p].kind # "webhook" => req[p].status # 200

(***************************************************************************)
(* SpecRouting: POST /events and PATCH /events/:id of a connected user,    *)
(* one request at a time, every call succeeding, from an empty store or    *)
(* from one holding an event already propagated.                           *)
(***************************************************************************)
PropagatedRow ==
  [NoEvent EXCEPT !.id = 1, !.userId = "u1", !.title = "T", !.startTime = 33,
                  !.endTime = 34, !.googleEventId = 1,
                  !.googleCalendarId = "c1", !.googleEtag = "e0"]

InitRouting ==
  /\ \/ /\ events = {}
        /\ nextEventId = 1
        /\ remote = [g \in GoogleEventIds |-> AbsentItem]
        /\ outward = [g \in GoogleEventIds |-> NoOrigin]
     \/ /\ events = {PropagatedRow}
        /\ nextEventId = 2
        /\ remote = [g \in GoogleEventIds |->
                       IF g = 1
                         THEN Patched([AbsentItem EXCEPT !.cal = "c1",
                                                         !.status = "confirmed"],
                                      MapEventToGoogle(PropagatedRow))
                         ELSE AbsentItem]
        /\ outward = [g \in GoogleEventIds |->
                        IF g = 1 THEN Origin(PropagatedRow) ELSE NoOrigin]
  /\ accounts = [u \in Users |-> IF u = "u1" THEN Account("c1") ELSE NoAccount]
  /\ channels = {}
  /\ nextChannelId = 1
  /\ nextToken = 1
  /\ req = [p \in Procs |-> Idle]
  /\ started = 0
  /\ faults = MaxFaults
  /\ edits = MaxEdits
  /\ maxInFlight = 1
  /\ tz \in TzOffsets
  /\ script = <<>>
  /\ lastDone = NoSnapshot

NextRouting ==
  \E p \in Procs :
    \/ StartCreateEvent(p, "u1")
    \/ StartUpdateEvent(p, "u1")
    \/ UpdateEventRow(p)
    \/ OutAccount(p)
    \/ OutRemote(p)
    \/ OutWriteBack(p)
    \/ Finish(p)

SpecRouting == InitRouting /\ [][NextRouting]_vars

\* The remote events that exist.
RemoteIds == {g \in GoogleEventIds : remote[g].status # "absent"}

\* C18: propagating an event that carries a remote id patches that remote
\* event and adds none; otherwise it inserts one remote event, whose id,
\* calendar id and etag the write-back puts on the local row. So, between
\* requests, every remote event belongs to exactly one local row and every
\* local row to one remote event: a create and its later updates have issued
\* one insert, every later propagation was a patch.
OneInsertThenPatches ==
  /\ [](Quiescent =>
          /\ \A e \in events :
               /\ e.googleEventId \in RemoteIds
               /\ e.googleCalendarId = remote[e.googleEventId].cal
               /\ e.googleEtag = remote[e.googleEventId].etag
          /\ \A g \in RemoteIds :
               Cardinality({e \in events : e.googleEventId = g}) = 1)
  /\ [][\A p \in Procs :
          (StepOf(p) /\ req[p].pc = "out_remote")
            => IF req[p].event.googleEventId # 0
                 THEN /\ RemoteIds' = RemoteIds
                      /\ req'[p].googleEventId = req[p].event.googleEventId
                      /\ remote'[req[p].event.googleEventId].summary
                           = req[p].event.title
                      /\ \A g \in GoogleEventIds :
                           g # req[p].event.googleEventId
                             => remote'[g] = remote[g]
                 ELSE /\ req'[p].googleEventId \notin RemoteIds
                      /\ RemoteIds' = RemoteIds \cup {req'[p].googleEventId}
                      /\ \A g \in RemoteIds : remote'[g] = remote[g]]_vars

\* An update of an event that carried a remote id has been propagated: the
\* remote event has the new title and there is still one remote event.
UpdateWasPatched ==
  \E p \in Procs :
    /\ req[p].kind = "update" /\ req[p].pc = "done" /\ req[p].status = 200
    /\ req[p].event.googleEventId # 0
    /\ remote[req[p].event.googleEventId].summary = "T2"
    /\ Cardinality(RemoteIds) = 1

(***************************************************************************)
(* SpecDelete: POST /events and DELETE /events/:id of a connected user,    *)
(* one request at a time, with a failure injected into the delete path and *)
(* remote events deleted from outside.                                     *)
(***************************************************************************)
InitDelete ==
  /\ events = {}
  /\ nextEventId = 1
  /\ accounts = [u \in Users |-> IF u = "u1" THEN Account("c1") ELSE NoAccount]
  /\ channels = {}
  /\ nextChannelId = 1
  /\ remote = [g \in GoogleEventIds |-> AbsentItem]
  /\ nextToken = 1
  /\ req = [p \in Procs |-> Idle]
  /\ started = 0
  /\ faults = 0
  /\ edits = 0
  /\ maxInFlight = 1
  /\ tz = 0
  /\ script = <<>>
  /\ outward = [g \in GoogleEventIds |-> NoOrigin]
  /\ lastDone = NoSnapshot

NextDelete ==
  \/ \E p \in Procs :
       \/ \E u \in Users : StartCreateEvent(p, u)
       \/ OutAccount(p)
       \/ OutRemote(p)
       \/ OutWriteBack(p)
       \/ \E u \in Users : StartDeleteEvent(p, u)
       \/ DeleteEventRow(p)
       \/ DelAccount(p)
       \/ DelAccountFails(p)
       \/ DelRemote(p)
       \/ DelRemoteFails(p)
       \/ Finish(p)
  \/ \E g \in GoogleEventIds : ExternalCancel(g)

SpecDelete == InitDelete /\ [][NextDelete]_vars

\* C19: deleting a local event that never had a remote id issues no remote
\* call; deleting one that has a remote id issues a remote delete of that id,
\* and whatever the remote answers (deleted, not found, any failure) the
\* local row stays deleted and the request answers 200.
RemoteDeleteIsBestEffort ==
  /\ [][\A p \in Procs :
          /\ (StepOf(p) /\ req[p].kind = "delete"
                /\ req[p].event.googleEventId = 0)
               => (remote' = remote /\ req'[p].pc # "del_remote")
          /\ (StepOf(p) /\ req[p].pc = "del_account"
                /\ req[p].event.googleEventId # 0
                /\ accounts[req[p].userId].connected
                /\ accounts[req[p].userId].selectedCalendarId # "")
               => \/ req'[p].pc = "del_remote"
                  \/ req'[p].status = 500
          /\ (StepOf(p) /\ req[p].pc = "del_remote")
               => /\ req[p].event.googleEventId # 0
                  /\ events' = events
                  /\ \A e \in events : e.id # req[p].event.id
                  /\ req'[p].pc = "done" /\ req'[p].status = 200
                  /\ \A g \in GoogleEventIds :
                       \/ remote'[g] = remote[g]
                       \/ /\ g = req[p].event.googleEventId
                          /\ remote'[g].status = "cancelled"]_vars
  /\ [](\A p \in Procs :
          (req[p].kind = "delete" /\ req[p].pc = "done" /\ req[p].status = 200)
            => \A e \in events : e.id # req[p].i)

\* The remote delete of a propagated event failed; the row is gone, the
\* request answered 200 and the remote copy is still there.
DeleteSucceededRemoteFailed ==
  \E p \in Procs :
    /\ req[p].kind = "delete" /\ req[p].pc = "done" /\ req[p].status = 200
    /\ req[p].event.googleEventId # 0
    /\ faults = 1
    /\ remote[req[p].event.googleEventId].status = "confirmed"
    /\ \A e \in events : e.id # req[p].event.id

(***************************************************************************)
(* SpecAuthority: user u1 has one propagated event and a watched calendar; *)
(* one PATCH or DELETE of the event, whose remote call may fail, and one   *)
(* manual pull (POST /sync-now or /backfill), one request at a time.  The  *)
(* remote calendar changes only through the server's own calls.            *)
(***************************************************************************)
InitAuthority ==
  /\ events = {PropagatedRow}
  /\ nextEventId = 2
  /\ accounts = [u \in Users |-> IF u = "u1" THEN Account("c1") ELSE NoAccount]
  /\ channels = {Channel(1, ResourceOf("c1"), "u1", "c1", 1, 0)}
  /\ nextChannelId = 2
  /\ remote = [g \in GoogleEventIds |->
                 IF g = 1
                   THEN Patched([AbsentItem EXCEPT !.cal = "c1",
                                                   !.status = "confirmed"],
                                MapEventToGoogle(PropagatedRow))
                   ELSE AbsentItem]
  /\ nextToken = 1
  /\ req = [p \in Procs |-> Idle]
  /\ started = 0
  /\ faults = 0
  /\ edits = MaxEdits
  /\ maxInFlight = 1
  /\ tz = 0
  /\ script = <<>>
  /\ outward = [g \in GoogleEventIds |->
                  IF g = 1 THEN Origin(PropagatedRow) ELSE NoOrigin]
  /\ lastDone = NoSnapshot

NextAuthority ==
  \E p \in Procs :
    \/ StartUpdateEvent(p, "u1")
    \/ UpdateEventRow(p)
    \/ OutAccount(p)
    \/ OutRemote(p)
    \/ OutRemoteFails(p)
    \/ StartDeleteEvent(p, "u1")
    \/ DeleteEventRow(p)
    \/ DelAccount(p)
    \/ DelRemote(p)
    \/ DelRemoteFails(p)
    \/ StartSyncNow(p, "u1")
    \/ SyncNowAccount(p)
    \/ SyncNowChannel(p)
    \/ StartBackfill(p, "u1")
    \/ BackfillAccount(p)
    \/ PullStep(p)
    \/ Finish(p)

SpecAuthority == InitAuthority /\ [][NextAuthority]_vars

\* C20: after a failed outbound update or delete the local state stays
\* authoritative: no step of a later inbound pull puts the older remote copy
\* over the locally edited title or times of a row, and none creates a row
\* for an event that was deleted locally.
LocalStateStaysAuthoritative ==
  [][\A p \in Procs :
       (StepOf(p) /\ IsPull(req[p]))
         => \A e \in events' :
              \E o \in events :
                /\ o.id = e.id
                /\ o.title = e.title
                /\ o.startTime = e.startTime
                /\ o.endTime = e.endTime]_vars

(***************************************************************************)
(* SpecAllDay: user u1 creates events, patches them with bodies that carry *)
(* allDay and either, both or none of the times, and pulls a calendar that *)
(* holds an all-day event; one request at a time, every call succeeding.   *)
(***************************************************************************)
\* Bodies of PATCH /events/:id: only allDay, only one of the times, allDay
\* with both times, besides the bodies of UpdateInputs.
PatchInputs ==
  UpdateInputs \cup
  {[title |-> "", startTime |-> NoStr, endTime |-> NoStr, allDay |-> "true"],
   [title |-> "", startTime |-> NoStr, endTime |-> NoStr, allDay |-> "false"],
   [title |-> "", startTime |-> InstantStr(81), endTime |-> NoStr,
    allDay |-> "undefined"],
   [title |-> "", startTime |-> NoStr, endTime |-> InstantStr(82),
    allDay |-> "undefined"],
   [title |-> "", startTime |-> InstantStr(81), endTime |-> InstantStr(82),
    allDay |-> "true"]}

InitAllDay ==
  /\ events = {}
  /\ nextEventId = 1
  /\ accounts = [u \in Users |-> IF u = "u1" THEN Account("c1") ELSE NoAccount]
  /\ channels = {}
  /\ nextChannelId = 1
  /\ remote = [g \in GoogleEventIds |->
                 IF g = 1 THEN RemoteItem("c1", "confirmed", AllDayPayload)
                 ELSE AbsentItem]
  /\ nextToken = 1
  /\ req = [p \in Procs |-> Idle]
  /\ started = 0
  /\ faults = MaxFaults
  /\ edits = MaxEdits
  /\ maxInFlight = 1
  /\ tz = 0
  /\ script = <<>>
  /\ outward = [g \in GoogleEventIds |-> NoOrigin]
  /\ lastDone = NoSnapshot

NextAllDay ==
  \E p \in Procs :
    \/ StartCreateEvent(p, "u1")
    \/ PatchEvent(p, "u1", PatchInputs)
    \/ UpdateEventRow(p)
    \/ OutAccount(p)
    \/ OutRemote(p)
    \/ OutWriteBack(p)
    \/ StartBackfill(p, "u1")
    \/ BackfillAccount(p)
    \/ SyncAccount(p)
    \/ ListPage(p)
    \/ FindExisting(p)
    \/ UpsertItem(p)
    \/ Finish(p)

SpecAllDay == InitAllDay /\ [][NextAllDay]_vars

\* C21: in every reachable state of the event store, every row whose allDay
\* flag is true has its start and its end at 12:00 UTC, after a local create,
\* a local update and an inbound pull.
AllDayRowsAtNoonUTC ==
  \A e \in events :
    e.allDay => /\ e.startTime % 24 = NOON_HOUR
                /\ e.endTime % 24 = NOON_HOUR

(***************************************************************************)
(* SpecDisconnect: two connected users with one channel each; webhooks,    *)
(* POST /sync-now and DELETE /disconnect, two requests in flight, every    *)
(* call succeeding.                                                        *)
(***************************************************************************)
InitDisconnect ==
  /\ events = {}
  /\ nextEventId = 1
  /\ accounts = [u \in Users |-> IF u = "u1" THEN Account("c1")
                                 ELSE Account("c2")]
  /\ channels = {Channel(1, ResourceOf("c1"), "u1", "c1", 1, 0),
                 Channel(2, ResourceOf("c2"), "u2", "c2", 1, 0)}
  /\ nextChannelId = 3
  /\ remote = [g \in GoogleEventIds |->
                 IF g = 1 THEN RemoteItem("c1", "confirmed", TimedPayload)
                 ELSE [AbsentItem EXCEPT !.cal = "c1", !.status = "cancelled"]]
  /\ nextToken = 1
  /\ req = [p \in Procs |-> Idle]
  /\ started = 0
  /\ faults = MaxFaults
  /\ edits = MaxEdits
  /\ maxInFlight = 2
  /\ tz = 0
  /\ script = <<>>
  /\ outward = [g \in GoogleEventIds |-> NoOrigin]
  /\ lastDone = NoSnapshot

NextDisconnect ==
  \E p \in Procs :
    \/ StartWebhook(p)
    \/ WebhookChannel(p)
    \/ StartSyncNow(p, "u1")
    \/ SyncNowAccount(p)
    \/ SyncNowChannel(p)
    \/ SyncAccount(p)
    \/ ListPage(p)
    \/ DeleteCancelled(p)
    \/ FindExisting(p)
    \/ UpsertItem(p)
    \/ PersistCursor(p)
    \/ \E u \in Users : StartDisconnect(p, u)
    \/ DisconnectChannels(p)
    \/ DisconnectAccount(p)
    \/ Finish(p)

SpecDisconnect == InitDisconnect /\ [][NextDisconnect]_vars

\* DELETE /disconnect of the user has completed: no credential record and no
\* channel row of the user is left.
Disconnected(u) ==
  /\ accounts[u] = NoAccount
  /\ \A c \in channels : c.userId # u

\* C22: DELETE /disconnect deletes the channel rows and the credential record
\* of the calling user and nothing of any other user; once it has completed
\* the user stays disconnected and no step of any request (a webhook for a
\* former channel id, a pull) changes the user's local events.
DisconnectEndsPulling ==
  [][/\ \A p \in Procs :
          (StepOf(p) /\ req[p].kind = "disconnect")
            => /\ events' = events
               /\ remote' = remote
               /\ \A c \in channels :
                    c.userId # req[p].userId => c \in channels'
               /\ \A u \in Users :
                    u # req[p].userId => accounts'[u] = accounts[u]
               /\ req[p].pc = "dc_channels"
                    => \A c \in channels' : c.userId # req[p].userId
               /\ req[p].pc = "dc_account"
                    => Disconnected(req[p].userId)'
     /\ \A u \in Users :
          Disconnected(u)
            => /\ Disconnected(u)'
               /\ {e \in events' : e.userId = u}
                    = {e \in events : e.userId = u}]_vars

\* The mode and window a route's pull is to use, given the cursor of the
\* channel the route found (0 when it found none or the row has none).
ExpectedMode(kind, cursor) ==
  IF kind = "backfill" \/ cursor = 0 THEN "timeMin" ELSE "syncToken"
ExpectedWindow(kind, cursor) ==
  IF kind = "backfill" THEN BACKFILL_WINDOW_DAYS
  ELSE IF cursor # 0 THEN 0
  ELSE IF kind = "syncNow" THEN SYNC_NOW_WINDOW_DAYS
  ELSE DEFAULT_WINDOW_DAYS

\* C23: a pull lists by cursor exactly when forceFull is false and a cursor
\* was given, and otherwise by a window of daysWindow days (90 when none was
\* given), with the same mode on every page; the webhook pulls by the cursor
\* of its channel when the row has one (else 90 days), sync-now by the cursor
\* of a channel of the caller's selected calendar when there is one with a
\* cursor (else forced full, 30 days), and backfill always forced full over
\* 365 days with no cursor, whatever cursor is stored.
PullModeSelection ==
  [][\A p \in Procs :
       /\ (StepOf(p) /\ req[p].pc = "list"
             /\ req'[p].pageCount = req[p].pageCount + 1)
            => /\ req'[p].listMode = "syncToken"
                    <=> (~req[p].forceFull /\ req[p].syncToken # 0)
               /\ req'[p].listMode = "timeMin"
                    <=> (req[p].forceFull \/ req[p].syncToken = 0)
               /\ req'[p].listMode = "timeMin"
                    => req'[p].windowDays =
                         IF req[p].daysWindow # 0 THEN req[p].daysWindow
                         ELSE DEFAULT_WINDOW_DAYS
               /\ req'[p].listMode = ExpectedMode(req[p].kind, req[p].syncToken)
               /\ req'[p].windowDays
                    = ExpectedWindow(req[p].kind, req[p].syncToken)
               /\ req[p].pageCount > 0
                    => /\ req'[p].listMode = req[p].listMode
                       /\ req'[p].windowDays = req[p].windowDays
       /\ (StepOf(p) /\ req'[p].pc = "sync_account")
            => LET rows == {c \in channels :
                              /\ c.userId = req'[p].userId
                              /\ c.calendarId = req'[p].calendarId}
               IN CASE req[p].kind = "webhook" ->
                         \E c \in channels :
                           /\ c.channelId = req[p].channelId
                           /\ req'[p].syncToken = c.syncToken
                           /\ ~req'[p].forceFull
                    [] req[p].kind = "syncNow" ->
                         /\ req'[p].calendarId
                              = accounts[req[p].userId].selectedCalendarId
                         /\ IF \E c \in rows : c.syncToken # 0
                              THEN /\ \E c \in rows :
                                        req'[p].syncToken = c.syncToken
                                   /\ req'[p].syncToken # 0
                                   /\ ~req'[p].forceFull
                              ELSE /\ req'[p].syncToken = 0
                                   /\ req'[p].forceFull
                    [] req[p].kind = "backfill" ->
                         /\ req'[p].syncToken = 0
                         /\ req'[p].forceFull
                    [] OTHER -> FALSE]_vars

\* A backfill by a user whose channel holds a cursor has fetched a page by a
\* 365-day window.
BackfillIgnoredStoredCursor ==
  \E p \in Procs :
    /\ req[p].kind = "backfill" /\ req[p].pageCount > 0
    /\ req[p].listMode = "timeMin"
    /\ req[p].windowDays = BACKFILL_WINDOW_DAYS
    /\ \E c \in channels :
         /\ c.userId = req[p].userId /\ c.calendarId = req[p].calendarId
         /\ c.syncToken # 0

(***************************************************************************)
(* SpecOwnership: users u1 and u2 share calendar c1; u2 holds a row for    *)
(* remote event 1.  u1 pulls, and sends PATCH and DELETE for every event   *)
(* id, two requests in flight, while the remote event is edited and        *)
(* cancelled from outside.                                                 *)
(***************************************************************************)
OtherUsersRow ==
  [PropagatedRow EXCEPT !.userId = "u2"]

InitOwnership ==
  /\ events = {OtherUsersRow}
  /\ nextEventId = 2
  /\ accounts = [u \in Users |-> Account("c1")]
  /\ channels = {Channel(1, ResourceOf("c1"), "u1", "c1", 1, 0)}
  /\ nextChannelId = 2
  /\ remote = [g \in GoogleEventIds |->
                 IF g = 1 THEN RemoteItem("c1", "confirmed", TimedPayload)
                 ELSE AbsentItem]
  /\ nextToken = 1
  /\ req = [p \in Procs |-> Idle]
  /\ started = 0
  /\ faults = MaxFaults
  /\ edits = 0
  /\ maxInFlight = 2
  /\ tz = 0
  /\ script = <<>>
  /\ outward = [g \in GoogleEventIds |-> NoOrigin]
  /\ lastDone = NoSnapshot

NextOwnership ==
  \/ \E p \in Procs :
       \/ StartBackfill(p, "u1")
       \/ BackfillAccount(p)
       \/ SyncAccount(p)
       \/ ListPage(p)
       \/ DeleteCancelled(p)
       \/ FindExisting(p)
       \/ UpsertItem(p)
       \/ StartUpdateEvent(p, "u1")
       \/ UpdateEventRow(p)
       \/ OutAccount(p)
       \/ OutRemote(p)
       \/ StartDeleteEvent(p, "u1")
       \/ DeleteEventRow(p)
       \/ DelAccount(p)
       \/ DelRemote(p)
       \/ Finish(p)
  \/ ExternalCancel(1)

SpecOwnership == InitOwnership /\ [][NextOwnership]_vars

\* C24: a step of a request of user u changes, creates and deletes only rows
\* owned by u, also when another user's row carries the same remote event id;
\* an update or delete request of u for an id that is not a row of u changes
\* no row, issues no remote call and answers 404, and a request carries a row
\* into its later steps only when the row is the caller's.
OwnershipScoping ==
  /\ [][\A p \in Procs :
          StepOf(p)
            => /\ \A e \in events :
                    e.userId # req'[p].userId => e \in events'
               /\ \A e \in events' :
                    e.userId # req'[p].userId => e \in events
               /\ (req[p].kind = "idle" /\ req'[p].kind = "update")
                    => /\ events' = events
                       /\ \/ /\ req'[p].pc = "done"
                             /\ req'[p].status = 404
                             /\ req'[p].event = NoEvent
                          \/ \E e \in events :
                               /\ e.id = req'[p].event.id
                               /\ e.userId = req'[p].userId
               /\ (/\ req[p].pc = "del_rows"
                   /\ ~\E e \in events :
                         e.id = req[p].i /\ e.userId = req[p].userId)
                    => /\ events' = events
                       /\ remote' = remote
                       /\ req[p].event = NoEvent
                            => (req'[p].pc = "done" /\ req'[p].status = 404)]_vars
  /\ [](\A p \in Procs :
          /\ req[p].event # NoEvent => req[p].event.userId = req[p].userId
          /\ req[p].pc \in {"ev_update", "out_account", "out_remote",
                            "del_account", "del_remote"}
               => req[p].event # NoEvent)

\* A pull of u1 has created u1's own row for remote event 1 while u2's row
\* for the same remote event is as it was.
PullLeftOtherUsersRow ==
  /\ OtherUsersRow \in events
  /\ \E p \in Procs, e \in events :
       /\ req[p].kind = "backfill" /\ req[p].created = 1
       /\ e.userId = "u1" /\ e.googleEventId = OtherUsersRow.googleEventId

\* C25: no step of a POST /watch of one user modifies, reassigns or removes
\* a channel row owned by a different user, also when the remote answers with
\* a resource id that the other user's row holds.
WatchLeavesOtherUsersChannels ==
  [][\A p \in Procs :
       (StepOf(p) /\ req[p].kind = "watch")
         => \A c \in channels :
              c.userId # req[p].userId => c \in channels']_vars

(***************************************************************************)
(* SpecFrame: user u1 holds a focus block with a category and a colour     *)
(* that is linked to remote event 1; the remote calendar holds that event  *)
(* without a title and a second event; u1's calendar is pulled, one        *)
(* request at a time, while the remote events are edited from outside.     *)
(***************************************************************************)
LinkedFocusBlock ==
  [PropagatedRow EXCEPT !.isFocusBlock = TRUE, !.categoryId = "k1",
                        !.color = "red"]

InitFrame ==
  /\ events = {LinkedFocusBlock}
  /\ nextEventId = 2
  /\ accounts = [u \in Users |-> IF u = "u1" THEN Account("c1") ELSE NoAccount]
  /\ channels = {Channel(1, ResourceOf("c1"), "u1", "c1", 1, 0)}
  /\ nextChannelId = 2
  /\ remote = [g \in GoogleEventIds |->
                 RemoteItem("c1", "confirmed",
                            IF g = 1 THEN AllDayPayload ELSE TimedPayload)]
  /\ nextToken = 1
  /\ req = [p \in Procs |-> Idle]
  /\ started = 0
  /\ faults = MaxFaults
  /\ edits = 0
  /\ maxInFlight = 1
  /\ tz = 0
  /\ script = <<>>
  /\ outward = [g \in GoogleEventIds |-> NoOrigin]
  /\ lastDone = NoSnapshot

NextFrame ==
  \/ \E p \in Procs :
       \/ StartWebhook(p)
       \/ WebhookChannel(p)
       \/ StartSyncNow(p, "u1")
       \/ SyncNowAccount(p)
       \/ SyncNowChannel(p)
       \/ StartBackfill(p, "u1")
       \/ BackfillAccount(p)
       \/ SyncAccount(p)
       \/ ListPage(p)
       \/ DeleteCancelled(p)
       \/ FindExisting(p)
       \/ UpsertItem(p)
       \/ PersistCursor(p)
       \/ Finish(p)
  \/ \E g \in GoogleEventIds : ExternalEdit(g) \/ ExternalCancel(g)

SpecFrame == InitFrame /\ [][NextFrame]_vars

\* C26: an upsert of a pull leaves the local id, owner, remote event id,
\* focus-block flag, category and colour of every existing row as they were
\* and sets the calendar id of a row it changes to the pulled calendar; a row
\* it creates belongs to the pulling user, carries the remote event id, the
\* pulled calendar id and the etag of an item of the page and is no focus
\* block, and its title is the item's title, or 'Untitled event' when the
\* item has none.
InboundUpsertFrame ==
  [][\A p \in Procs :
       (StepOf(p) /\ req[p].pc = "batch")
         => /\ \A e \in events :
                 \E n \in events' :
                   /\ n.id = e.id
                   /\ n.userId = e.userId
                   /\ n.googleEventId = e.googleEventId
                   /\ n.isFocusBlock = e.isFocusBlock
                   /\ n.categoryId = e.categoryId
                   /\ n.color = e.color
                   /\ n # e => n.googleCalendarId = req[p].calendarId
            /\ \A n \in events' :
                 (\A e \in events : e.id # n.id)
                   => /\ n.userId = req[p].userId
                      /\ n.googleCalendarId = req[p].calendarId
                      /\ ~n.isFocusBlock
                      /\ n.categoryId = "" /\ n.color = ""
                      /\ \E k \in req[p].pending :
                           LET ev == req[p].validEvents[k]
                           IN /\ n.googleEventId = ev.id
                              /\ n.googleEtag = ev.etag
                              /\ n.title = IF ev.summary = ""
                                             THEN "Untitled event"
                                             ELSE ev.summary]_vars

\* A pull has renamed the focus block to 'Untitled event' and made it an
\* all-day event, and has created a row for remote event 2; the focus block
\* still has its flag, category and colour.
PullUpdatedFocusBlock ==
  \E e \in events, n \in events :
    /\ e.id = LinkedFocusBlock.id /\ e.title = "Untitled event" /\ e.allDay
    /\ e.isFocusBlock /\ e.categoryId = "k1" /\ e.color = "red"
    /\ n.googleEventId = 2 /\ n.userId = "u1" /\ n.googleEtag = "e2"

(***************************************************************************)
(* SpecCycle: user u1 creates, updates and deletes events, each propagated *)
(* outward, while webhooks of u1's channel pull the calendar; two requests *)
(* in flight, every call succeeding, nobody else editing the calendar.     *)
(***************************************************************************)
InitCycle ==
  /\ \/ /\ events = {}
        /\ nextEventId = 1
        /\ remote = [g \in GoogleEventIds |-> AbsentItem]
        /\ outward = [g \in GoogleEventIds |-> NoOrigin]
     \/ /\ events = {PropagatedRow}
        /\ nextEventId = 2
        /\ remote = [g \in GoogleEventIds |->
                       IF g = 1
                         THEN Patched([AbsentItem EXCEPT !.cal = "c1",
                                                         !.status = "confirmed"],
                                      MapEventToGoogle(PropagatedRow))
                         ELSE AbsentItem]
        /\ outward = [g \in GoogleEventIds |->
                        IF g = 1 THEN Origin(PropagatedRow) ELSE NoOrigin]
  /\ accounts = [u \in Users |-> IF u = "u1" THEN Account("c1") ELSE NoAccount]
  /\ channels = {Channel(1, ResourceOf("c1"), "u1", "c1", 1, 0)}
  /\ nextChannelId = 2
  /\ nextToken = 1
  /\ req = [p \in Procs |-> Idle]
  /\ started = 0
  /\ faults = MaxFaults
  /\ edits = MaxEdits
  /\ maxInFlight = 2
  /\ tz = 0
  /\ script = <<>>
  /\ lastDone = NoSnapshot

NextCycle ==
  \E p \in Procs :
    \/ StartCreateEvent(p, "u1")
    \/ StartUpdateEvent(p, "u1")
    \/ UpdateEventRow(p)
    \/ OutAccount(p)
    \/ OutRemote(p)
    \/ OutWriteBack(p)
    \/ StartDeleteEvent(p, "u1")
    \/ DeleteEventRow(p)
    \/ DelAccount(p)
    \/ DelRemote(p)
    \/ StartWebhook(p)
    \/ WebhookChannel(p)
    \/ SyncAccount(p)
    \/ ListPage(p)
    \/ DeleteCancelled(p)
    \/ FindExisting(p)
    \/ UpsertItem(p)
    \/ PersistCursor(p)
    \/ Finish(p)

SpecCycle == InitCycle /\ [][NextCycle]_vars

\* The steps of syncToGoogle and deleteFromGoogle.
OutboundPcs ==
  {"out_account", "out_remote", "out_writeback", "del_account", "del_remote"}

\* C27: no step of an inbound pull changes the remote calendar or enters
\* outbound propagation, and a pull never stands at a step of syncToGoogle or
\* deleteFromGoogle; the remote calendar changes only in the remote step of a
\* create, update or delete request, so a pull triggered by that change is
\* followed by no further remote write.
PullNeverWritesRemote ==
  /\ [](\A p \in Procs : IsPull(req[p]) => req[p].pc \notin OutboundPcs)
  /\ [][/\ \A p \in Procs :
             (StepOf(p) /\ (IsPull(req[p]) \/ IsPull(req'[p])))
               => /\ remote' = remote
                  /\ req'[p].pc \notin OutboundPcs
        /\ remote' # remote
             => \E p \in Procs :
                  /\ StepOf(p)
                  /\ req[p].kind \in {"create", "update", "delete"}
                  /\ req[p].pc \in {"out_remote", "del_remote"}]_vars

\* A webhook's pull has applied an event that a local create had inserted
\* remotely: the row was updated by the pull and the pull is over.
PullAppliedPropagatedEvent ==
  \E p \in Procs :
    /\ req[p].kind = "webhook" /\ req[p].pc = "done" /\ req[p].updated > 0
    /\ \E e \in events :
         e.googleEventId # 0 /\ outward[e.googleEventId].set

(***************************************************************************)
(* SpecRedeliver: webhooks of u1's channel pull a calendar that holds two  *)
(* events and does not change; one upsert may fail.  The remote serves a   *)
(* listing by cursor with the changes made since the cursor was issued     *)
(* (the remote's incremental listing), which are none here.                *)
(***************************************************************************)
InitRedeliver ==
  /\ events = {}
  /\ nextEventId = 1
  /\ accounts = [u \in Users |-> IF u = "u1" THEN Account("c1") ELSE NoAccount]
  /\ channels = {Channel(1, ResourceOf("c1"), "u1", "c1", 1, 0)}
  /\ nextChannelId = 2
  /\ remote = [g \in GoogleEventIds |->
                 RemoteItem("c1", "confirmed",
                            IF g = 1 THEN TimedPayload ELSE AllDayPayload)]
  /\ nextToken = 1
  /\ req = [p \in Procs |-> Idle]
  /\ started = 0
  /\ faults = 0
  /\ edits = MaxEdits
  /\ maxInFlight = 1
  /\ tz = 0
  /\ script = <<>>
  /\ outward = [g \in GoogleEventIds |-> NoOrigin]
  /\ lastDone = NoSnapshot

\* calendar.events.list with timeMin: any events of the calendar.
ListWindow(p) ==
  /\ ~(~req[p].forceFull /\ req[p].syncToken # 0)
  /\ ListPage(p)

\* calendar.events.list with syncToken, the calendar unchanged since the
\* cursor was issued: one empty page with a new cursor.
ListSince(p) ==
  /\ req[p].pc = "list"
  /\ ~req[p].forceFull /\ req[p].syncToken # 0
  /\ nextToken <= MaxTokens
  /\ req' = [req EXCEPT ![p] = PageFetched(req[p], <<>>, FALSE, nextToken)]
  /\ nextToken' = nextToken + 1
  /\ UNCHANGED <<events, nextEventId, accounts, channels, nextChannelId,
                 remote, started, faults, edits, maxInFlight, tz, script,
                 outward, lastDone>>

NextRedeliver ==
  \E p \in Procs :
    \/ StartWebhook(p)
    \/ WebhookChannel(p)
    \/ SyncAccount(p)
    \/ ListWindow(p)
    \/ ListSince(p)
    \/ FindExisting(p)
    \/ UpsertItem(p)
    \/ UpsertFails(p)
    \/ PersistCursor(p)
    \/ Finish(p)

SpecRedeliver == InitRedeliver /\ [][NextRedeliver]_vars

\* C28: a failed upsert of a pull writes nothing and does not end the pull;
\* a pull of a channel that logged a failed upsert still ends normally and,
\* when its listing carried a cursor, has written that cursor to the channel;
\* a pull that lists from a stored cursor is served nothing, so it applies
\* nothing, the failed item included.
CursorAdvancesPastFailedItem ==
  /\ [](\A p \in Procs :
          (IsPull(req[p]) /\ req[p].pc = "done" /\ req[p].pageCount > 0)
            => /\ req[p].syncResult = "returned"
               /\ (req[p].failedIds # {} /\ req[p].nextSyncToken # 0)
                    => \E c \in channels :
                         /\ c.channelId = req[p].channelId
                         /\ c.syncToken = req[p].nextSyncToken
               /\ req[p].listMode = "syncToken"
                    => /\ req[p].total = 0
                       /\ req[p].created = 0 /\ req[p].updated = 0)
  /\ [][\A p \in Procs :
          (StepOf(p) /\ req[p].pc = "batch" /\ faults' # faults)
            => /\ events' = events
               /\ req'[p].pc # "done" \/ req'[p].syncResult = "returned"]_vars

\* A webhook's pull is over: the upsert of a remote event failed, the event
\* has no row, the other event of the page has one, and the channel holds
\* the cursor the listing carried.
CursorWrittenDespiteFailure ==
  \E p \in Procs, g \in GoogleEventIds :
    /\ req[p].kind = "webhook" /\ req[p].pc = "done"
    /\ req[p].syncResult = "returned" /\ req[p].pageCount = 1
    /\ req[p].failedIds = {g} /\ req[p].created = 1
    /\ remote[g].status = "confirmed"
    /\ \A e \in events : e.googleEventId # g
    /\ req[p].nextSyncToken # 0
    /\ \E c \in channels :
         /\ c.channelId = req[p].channelId
         /\ c.syncToken = req[p].nextSyncToken

(***************************************************************************)
(* SpecRetarget: user u1 has an event linked to remote event 1 of calendar *)
(* c1; the remote event is in c1, or was moved to c2 in the remote's own   *)
(* UI (a move keeps the event id).  u1 selects a calendar with POST /watch *)
(* and creates, updates or deletes events; one request at a time, every    *)
(* call succeeding.                                                        *)
(***************************************************************************)
InitRetarget ==
  /\ events = {PropagatedRow}
  /\ nextEventId = 2
  /\ accounts = [u \in Users |-> IF u = "u1" THEN Account("c1") ELSE NoAccount]
  /\ channels = {Channel(1, ResourceOf("c1"), "u1", "c1", 1, 0)}
  /\ nextChannelId = 2
  /\ \E cal \in Calendars :
       remote = [g \in GoogleEventIds |->
                   IF g = 1
                     THEN Patched([AbsentItem EXCEPT !.cal = cal,
                                                     !.status = "confirmed"],
                                  MapEventToGoogle(PropagatedRow))
                     ELSE AbsentItem]
  /\ nextToken = 1
  /\ req = [p \in Procs |-> Idle]
  /\ started = 0
  /\ faults = MaxFaults
  /\ edits = MaxEdits
  /\ maxInFlight = 1
  /\ tz = 0
  /\ script = <<>>
  /\ outward = [g \in GoogleEventIds |->
                  IF g = 1 THEN Origin(PropagatedRow) ELSE NoOrigin]
  /\ lastDone = NoSnapshot

NextRetarget ==
  \E p \in Procs :
    \/ \E c \in Calendars : StartWatch(p, "u1", c)
    \/ WatchAccount(p)
    \/ WatchCalendar(p)
    \/ WatchPrime(p)
    \/ WatchUpsert(p)
    \/ WatchCollision(p)
    \/ WatchSelect(p)
    \/ StartCreateEvent(p, "u1")
    \/ StartUpdateEvent(p, "u1")
    \/ UpdateEventRow(p)
    \/ OutAccount(p)
    \/ OutRemote(p)
    \/ OutWriteBack(p)
    \/ StartDeleteEvent(p, "u1")
    \/ DeleteEventRow(p)
    \/ DelAccount(p)
    \/ DelRemote(p)
    \/ Finish(p)

SpecRetarget == InitRetarget /\ [][NextRetarget]_vars

\* C29: the calendar of an outbound patch, insert or delete is the user's
\* selected calendar as read at the start of the propagation, whatever
\* calendar the row records; the remote event id of a patch or delete is the
\* row's; a remote call changes only an event of that calendar, and the
\* write-back after a successful patch or insert tags the row with that
\* calendar.
OutboundTargetsSelectedCalendar ==
  [][\A p \in Procs :
       /\ (StepOf(p) /\ req[p].pc \in {"out_account", "del_account"}
             /\ req'[p].pc \in {"out_remote", "del_remote"})
            => req'[p].calendarId = accounts[req[p].userId].selectedCalendarId
       /\ (StepOf(p) /\ req[p].pc \in {"out_remote", "del_remote"})
            => /\ \A g \in GoogleEventIds :
                    remote'[g] # remote[g]
                      => /\ remote'[g].cal = req[p].calendarId
                         /\ req[p].event.googleEventId # 0
                              => g = req[p].event.googleEventId
               /\ req'[p].pc = "out_writeback"
                    => /\ req'[p].calendarId = req[p].calendarId
                       /\ remote[req'[p].googleEventId] # remote'[req'[p].googleEventId]
                            \/ remote[req'[p].googleEventId].cal = req[p].calendarId
       /\ (StepOf(p) /\ req[p].pc = "out_writeback")
            => \A e \in events' :
                 e.id = req[p].event.id
                   => /\ e.googleCalendarId = req[p].calendarId
                      /\ e.googleEventId = req[p].googleEventId]_vars

\* After u1 selected calendar c2, an update of the event that was linked to
\* calendar c1 was patched into c2 under its old remote id, and the row is
\* now tagged with c2.
RowRetaggedToNewCalendar ==
  \E p \in Procs, e \in events :
    /\ req[p].kind = "update" /\ req[p].pc = "done" /\ req[p].status = 200
    /\ accounts["u1"].selectedCalendarId = "c2"
    /\ e.id = PropagatedRow.id
    /\ e.googleEventId = PropagatedRow.googleEventId
    /\ PropagatedRow.googleCalendarId = "c1"
    /\ e.googleCalendarId = "c2"
    /\ remote[e.googleEventId].cal = "c2"
    /\ remote[e.googleEventId].summary = e.title

(***************************************************************************)
(* SpecOrphan: user u1 is connected and holds a channel on calendar c1;    *)
(* POST /watch and DELETE /disconnect of u1 interleave freely, every call  *)
(* succeeding.                                                             *)
(***************************************************************************)
InitOrphan ==
  /\ events = {}
  /\ nextEventId = 1
  /\ accounts = [u \in Users |-> IF u = "u1" THEN Account("c1") ELSE NoAccount]
  /\ channels = {Channel(1, ResourceOf("c1"), "u1", "c1", 1, 0)}
  /\ nextChannelId = 2
  /\ remote = [g \in GoogleEventIds |-> AbsentItem]
  /\ nextToken = 1
  /\ req = [p \in Procs |-> Idle]
  /\ started = 0
  /\ faults = MaxFaults
  /\ edits = MaxEdits
  /\ maxInFlight = 2
  /\ tz = 0
  /\ script = <<>>
  /\ outward = [g \in GoogleEventIds |-> NoOrigin]
  /\ lastDone = NoSnapshot

NextOrphan ==
  \E p \in Procs :
    \/ \E c \in Calendars : StartWatch(p, "u1", c)
    \/ WatchAccount(p)
    \/ WatchCalendar(p)
    \/ WatchPrime(p)
    \/ WatchUpsert(p)
    \/ WatchCollision(p)
    \/ WatchSelect(p)
    \/ StartDisconnect(p, "u1")
    \/ DisconnectChannels(p)
    \/ DisconnectAccount(p)
    \/ Finish(p)

SpecOrphan == InitOrphan /\ [][NextOrphan]_vars

\* C30: in every state reached by interleaved POST /watch and DELETE
\* /disconnect requests of a user, every channel row belongs to a user who
\* has a credential record, unless a disconnect of that user is between its
\* two deletes or a watch of that user has yet to answer.
ChannelsBelongToConnectedUsers ==
  \A c \in channels :
    \/ accounts[c.userId].connected
    \/ \E p \in Procs :
         /\ req[p].userId = c.userId
         /\ req[p].kind \in {"watch", "disconnect"}
         /\ req[p].pc # "done"

====
